---- MODULE Spec2Model ----
(***************************************************************************)
(* The scheduling solver of karpenter-core                                 *)
(* (pkg/controllers/provisioning/scheduling): Scheduler.Solve and          *)
(* Scheduler.add, the prospective node (Node.Add, FinalizeScheduling), the *)
(* instance-type filter and the provisioner remaining-resource tracker.    *)
(*                                                                         *)
(* One Solve is one process.  Its position is pc (with idx inside the      *)
(* loops of Scheduler.add and of the finalization), the pod it holds is    *)
(* cur.  Every call of Node.Add / ExistingNode.Add is one step, so that    *)
(* the effect of a single Add on a single node can be observed.            *)
(***************************************************************************)
EXTENDS Integers, Sequences, FiniteSets, TLC

(***************************************************************************)
(* Bounds of the model.                                                    *)
(***************************************************************************)
MaxPods == 3

(***************************************************************************)
(* Small helpers on sequences and functions.                               *)
(***************************************************************************)
Range(s) == {s[i] : i \in 1..Len(s)}

SeqsUpTo(S, n) == UNION {[1..k -> S] : k \in 0..n}

RECURSIVE SumSeq(_)
SumSeq(s) == IF s = <<>> THEN 0 ELSE Head(s) + SumSeq(Tail(s))

MaxOf(S) == CHOOSE x \in S : \A y \in S : y <= x

(***************************************************************************)
(* Resource algebra (pkg/utils/resources).  A v1.ResourceList is a         *)
(* function from the resource names it holds to quantities; a missing key  *)
(* reads as the zero quantity, as a Go map read does.                      *)
(***************************************************************************)
Resources == {"cpu", "memory"}

EmptyResourceList == [r \in {} |-> 0]

Quantity(rl, r) == IF r \in DOMAIN rl THEN rl[r] ELSE 0

Cmp(lhs, rhs) == IF lhs < rhs THEN -1 ELSE IF lhs > rhs THEN 1 ELSE 0

Merge(a, b) == [r \in (DOMAIN a) \cup (DOMAIN b) |-> Quantity(a, r) + Quantity(b, r)]

Subtract(lhs, rhs) == [r \in DOMAIN lhs |-> lhs[r] - Quantity(rhs, r)]

Fits(candidate, total) ==
    /\ \A r \in DOMAIN total : Cmp(0, total[r]) <= 0
    /\ \A r \in DOMAIN candidate : Cmp(candidate[r], Quantity(total, r)) <= 0

MaxResources(lists) ==
    [r \in UNION {DOMAIN l : l \in lists} |-> MaxOf({Quantity(l, r) : l \in lists})]

(***************************************************************************)
(* Requirement sets (pkg/scheduling.Requirements), restricted to the In    *)
(* operator: a function from the label keys it constrains to the finite    *)
(* set of values allowed for the key.                                      *)
(***************************************************************************)
NewRequirements == [k \in {} |-> {}]

Has(reqs, key) == key \in DOMAIN reqs

ReqAdd(a, b) ==
    [k \in (DOMAIN a) \cup (DOMAIN b) |->
        IF k \in DOMAIN a /\ k \in DOMAIN b THEN a[k] \cap b[k]
        ELSE IF k \in DOMAIN a THEN a[k] ELSE b[k]]

Intersects(a, b) == \A k \in (DOMAIN a) \cap (DOMAIN b) : a[k] \cap b[k] # {}

Compatible(a, b) == Intersects(a, b)

ReqDelete(reqs, key) == [k \in (DOMAIN reqs) \ {key} |-> reqs[k]]

LabelHostname == "kubernetes.io/hostname"
LabelTopologyZone == "topology.kubernetes.io/zone"
LabelCapacityType == "karpenter.sh/capacity-type"
ProvisionerNameLabelKey == "karpenter.sh/provisioner-name"

(***************************************************************************)
(* Synthetic hostnames: fmt.Sprintf("hostname-placeholder-%04d", id).      *)
(* A hostname is its prefix and the decimal digits printed after it; %04d  *)
(* pads with zeros to four digits and prints longer numbers in full.       *)
(***************************************************************************)
RECURSIVE Digits(_)
Digits(n) == IF n < 10 THEN <<n>> ELSE Append(Digits(n \div 10), n % 10)

RECURSIVE ZeroPad(_, _)
ZeroPad(d, width) == IF Len(d) >= width THEN d ELSE ZeroPad(<<0>> \o d, width)

\* an add whose update of the counter is lost
AddInt64Lost(counter, delta) == counter

\* atomic.AddInt64: the counter after the add, which is also what the caller is returned
AtomicAddInt64(counter, delta) == counter + delta

PlaceholderHostname(id) == [prefix |-> "hostname-placeholder-", digits |-> ZeroPad(Digits(id), 4)]

NodeHostname(name) == [prefix |-> name, digits |-> <<>>]

(***************************************************************************)
(* The inputs of a Solve: instance types (cloudprovider.InstanceType),     *)
(* machine templates with their per-provisioner instance-type lists and    *)
(* daemon overhead, the state nodes of the cluster snapshot, and the pod   *)
(* shapes a batch is drawn from.                                           *)
(***************************************************************************)
Offering(zone, available) == [Zone |-> zone, CapacityType |-> "on-demand", Available |-> available]

InstanceTypeCatalog ==
    [small |-> [Name |-> "small",
                Capacity |-> [cpu |-> 3, memory |-> 4],
                Overhead |-> [cpu |-> 1],
                Requirements |-> (LabelTopologyZone :> {"z1", "z2"}),
                Offerings |-> {Offering("z1", TRUE), Offering("z2", FALSE)}],
     large |-> [Name |-> "large",
                Capacity |-> [cpu |-> 5, memory |-> 8],
                Overhead |-> [cpu |-> 1],
                Requirements |-> (LabelTopologyZone :> {"z1", "z2"}),
                Offerings |-> {Offering("z1", TRUE), Offering("z2", TRUE)}]]

Taint(key, effect) == [Key |-> key, Effect |-> effect]

MachineTemplateCatalog ==
    [a |-> [ProvisionerName |-> "a",
            Requirements |-> (ProvisionerNameLabelKey :> {"a"}),
            Taints |-> {},
            StartupTaints |-> {}],
     b |-> [ProvisionerName |-> "b",
            Requirements |-> (ProvisionerNameLabelKey :> {"b"}),
            Taints |-> {Taint("soft", "PreferNoSchedule")},
            StartupTaints |-> {}]]

\* Scheduler.instanceTypes: provisioner name -> instance types
InstanceTypesOf ==
    [a |-> <<InstanceTypeCatalog["small"], InstanceTypeCatalog["large"]>>,
     b |-> <<InstanceTypeCatalog["large"]>>]

\* Scheduler.daemonOverhead: machine template -> resources of its daemons
DaemonOverheadOf ==
    [a |-> [cpu |-> 1],
     b |-> EmptyResourceList]

TemplateLists == {<<>>, <<"a">>, <<"a", "b">>}

\* Provisioner.Spec.Limits of the provisioners that declare limits
LimitChoices ==
    { [p \in {} |-> EmptyResourceList],
      [p \in {"a"} |-> [cpu |-> 8]],
      [p \in {"a"} |-> [cpu |-> 2, memory |-> 8]] }

HostPort(ip, port) == [IP |-> ip, Port |-> port, Protocol |-> "TCP"]

StateNodeCatalog ==
    [n1 |-> [Name |-> "n1",
             Labels |-> (ProvisionerNameLabelKey :> "a" @@ LabelTopologyZone :> "z1"
                         @@ LabelHostname :> NodeHostname("n1")),
             Capacity |-> [cpu |-> 3, memory |-> 4],
             Available |-> [cpu |-> 2, memory |-> 4],
             HostPorts |-> {}],
     n2 |-> [Name |-> "n2",
             Labels |-> (LabelTopologyZone :> "z1" @@ LabelHostname :> NodeHostname("n2")),
             Capacity |-> [cpu |-> 5, memory |-> 8],
             Available |-> [cpu |-> 4, memory |-> 8],
             HostPorts |-> {}],
     n3 |-> [Name |-> "n3",
             Labels |-> (ProvisionerNameLabelKey :> "zz" @@ LabelTopologyZone :> "z1"
                         @@ LabelHostname :> NodeHostname("n3")),
             Capacity |-> [cpu |-> 5, memory |-> 8],
             Available |-> [cpu |-> 4, memory |-> 8],
             HostPorts |-> {}],
     n4 |-> [Name |-> "n4",
             Labels |-> (ProvisionerNameLabelKey :> "a" @@ LabelTopologyZone :> "z2"
                         @@ LabelHostname :> NodeHostname("n4")),
             Capacity |-> [cpu |-> 5, memory |-> 8],
             Available |-> [cpu |-> 4, memory |-> 8],
             HostPorts |-> {}],
     n5 |-> [Name |-> "n5",
             Labels |-> (ProvisionerNameLabelKey :> "b" @@ LabelTopologyZone :> "z1"
                         @@ LabelHostname :> NodeHostname("n5")),
             Capacity |-> [cpu |-> 3],
             Available |-> [cpu |-> 2],
             HostPorts |-> {}]]

StateNodeLists == {<<>>, <<"n2", "n1", "n3">>}

Toleration(key, effect) == [Key |-> key, Effect |-> effect]

Pod(requests, ports, selector, preferred, anti) ==
    [Requests |-> requests,
     HostPorts |-> ports,
     NodeSelector |-> selector,
     PreferredNodeAffinity |-> preferred,
     AntiAffinity |-> anti,
     Tolerations |-> {}]

PodCatalog ==
    [port |-> Pod([cpu |-> 1, memory |-> 1], {HostPort("0.0.0.0", 80)}, NewRequirements, <<>>, "none"),
     z2   |-> Pod([cpu |-> 2], {HostPort("10.0.0.1", 80)}, (LabelTopologyZone :> {"z2"}), <<>>, "none"),
     soft |-> Pod([cpu |-> 1], {}, NewRequirements, <<(LabelTopologyZone :> {"z3"})>>, "required"),
     big  |-> Pod([cpu |-> 9], {}, NewRequirements, <<>>, "none")]

PodKinds == DOMAIN PodCatalog

(***************************************************************************)
(* Errors are the strings the checks return; NoError is Go's nil error.    *)
(***************************************************************************)
NoError == "nil"

(***************************************************************************)
(* Taints.Tolerates (pkg/scheduling): every taint must be tolerated by one *)
(* of the pod's tolerations.                                               *)
(***************************************************************************)
ToleratesTaint(tol, taint) ==
    /\ tol.Key = "*" \/ tol.Key = taint.Key
    /\ tol.Effect = taint.Effect

Tolerates(taints, pod) ==
    IF \A t \in taints : \E tol \in pod.Tolerations : ToleratesTaint(tol, t)
    THEN NoError
    ELSE "did not tolerate taint"

(***************************************************************************)
(* HostPortUsage (pkg/scheduling): the (IP, port, protocol) entries        *)
(* reserved on one node.  Two entries conflict when protocol and port are  *)
(* equal and the IPs are equal or one of them is the wildcard 0.0.0.0.     *)
(***************************************************************************)
NewHostPortUsage == {}

HostPortMatches(e, rhs) ==
    /\ e.Protocol = rhs.Protocol
    /\ e.Port = rhs.Port
    /\ e.IP = rhs.IP \/ e.IP = "0.0.0.0" \/ rhs.IP = "0.0.0.0"

HostPortValidate(usage, pod) ==
    IF \E e \in pod.HostPorts : \E r \in usage : HostPortMatches(e, r)
    THEN "host port conflict"
    ELSE NoError

HostPortAdd(usage, pod) == usage \cup pod.HostPorts

(***************************************************************************)
(* NewPodRequirements (pkg/scheduling): the pod's node selector and, while *)
(* it has not been relaxed away, its heaviest preferred node-affinity term.*)
(***************************************************************************)
NewPodRequirements(pod) ==
    IF pod.PreferredNodeAffinity # <<>>
    THEN ReqAdd(pod.NodeSelector, Head(pod.PreferredNodeAffinity))
    ELSE pod.NodeSelector

RequestsForPods(pod) == pod.Requests

(***************************************************************************)
(* Topology tracker, for the hostname key: the registered hostname domains *)
(* and, per domain, the number of placed pods of the anti-affinity group.  *)
(* A pod with required pod anti-affinity is admitted only to a domain that *)
(* holds no pod of the group.                                              *)
(***************************************************************************)
TopologyRegister(topo, key, value) ==
    IF key = LabelHostname /\ value \notin topo.domains
    THEN [domains |-> topo.domains \cup {value},
          counts  |-> [d \in topo.domains \cup {value} |->
                          IF d \in topo.domains THEN topo.counts[d] ELSE 0]]
    ELSE topo

TopologyAddRequirements(topo, podRequirements, nodeRequirements, pod) ==
    IF pod.AntiAffinity = "none"
    THEN [err |-> NoError, reqs |-> NewRequirements]
    ELSE LET admissible == {d \in topo.domains : topo.counts[d] = 0}
             nodeDomains == IF Has(nodeRequirements, LabelHostname)
                            THEN nodeRequirements[LabelHostname]
                            ELSE topo.domains
             options == admissible \cap nodeDomains
         IN  IF options = {}
             THEN [err |-> "unsatisfiable topology constraint for pod anti-affinity",
                   reqs |-> NewRequirements]
             ELSE [err |-> NoError, reqs |-> (LabelHostname :> options)]

TopologyRecord(topo, pod, requirements) ==
    IF pod.AntiAffinity = "none" \/ ~Has(requirements, LabelHostname)
    THEN topo
    ELSE [topo EXCEPT !.counts =
            [d \in topo.domains |->
                IF d \in requirements[LabelHostname] THEN topo.counts[d] + 1
                ELSE topo.counts[d]]]

(***************************************************************************)
(* Prospective node (Node): a copy of its machine template with the        *)
(* synthetic hostname requirement, the pods placed on it, the instance     *)
(* types still possible, the accumulated requests and the host ports used. *)
(* id stands for the identity of the *Node (the counter value it was       *)
(* created with).                                                          *)
(***************************************************************************)
NewNode(machineTemplate, topology, daemonResources, instanceTypes, id) ==
    LET hostname == PlaceholderHostname(id)
        template == MachineTemplateCatalog[machineTemplate]
    IN  [topology |-> TopologyRegister(topology, LabelHostname, hostname),
         node |-> [id |-> id,
                   ProvisionerName |-> template.ProvisionerName,
                   Taints |-> template.Taints,
                   Requirements |-> ReqAdd(ReqAdd(NewRequirements, template.Requirements),
                                           (LabelHostname :> {hostname})),
                   InstanceTypeOptions |-> instanceTypes,
                   Requests |-> daemonResources,
                   Pods |-> <<>>,
                   hostPortUsage |-> NewHostPortUsage]]

compatible(instanceType, requirements) == Intersects(instanceType.Requirements, requirements)

\* fits without the instance type's own overhead
fitsWithoutOverhead(instanceType, requests) == Fits(requests, instanceType.Capacity)

fits(instanceType, requests) == Fits(Merge(requests, instanceType.Overhead), instanceType.Capacity)

hasOffering(instanceType, requirements) ==
    \E offering \in {o \in instanceType.Offerings : o.Available} :
        /\ ~Has(requirements, LabelTopologyZone) \/ offering.Zone \in requirements[LabelTopologyZone]
        /\ ~Has(requirements, LabelCapacityType) \/ offering.CapacityType \in requirements[LabelCapacityType]

filterInstanceTypesByRequirements(instanceTypes, requirements, requests) ==
    SelectSeq(instanceTypes,
              LAMBDA it : compatible(it, requirements) /\ fits(it, requests) /\ hasOffering(it, requirements))

\* Node.Add, lines 73-94: the requirements, requests and instance types it computes
NodeAddRequirements(m, pod) == ReqAdd(m.Requirements, NewPodRequirements(pod))

NodeAddTopology(m, pod, topology) ==
    TopologyAddRequirements(topology, NewPodRequirements(pod), NodeAddRequirements(m, pod), pod)

NodeAddFinalRequirements(m, pod, topology) ==
    ReqAdd(NodeAddRequirements(m, pod), NodeAddTopology(m, pod, topology).reqs)

NodeAddRequests(m, pod) == Merge(m.Requests, RequestsForPods(pod))

NodeAddInstanceTypes(m, pod, topology) ==
    filterInstanceTypesByRequirements(m.InstanceTypeOptions, NodeAddFinalRequirements(m, pod, topology),
                                      NodeAddRequests(m, pod))

\* Node.Add without the check that an instance type survives
NodeAddErrorNoSurvivalCheck(m, pod, topology) ==
    IF Tolerates(m.Taints, pod) # NoError THEN Tolerates(m.Taints, pod)
    ELSE IF HostPortValidate(m.hostPortUsage, pod) # NoError THEN HostPortValidate(m.hostPortUsage, pod)
    ELSE IF ~Compatible(m.Requirements, NewPodRequirements(pod)) THEN "incompatible requirements"
    ELSE IF NodeAddTopology(m, pod, topology).err # NoError THEN NodeAddTopology(m, pod, topology).err
    ELSE IF ~Compatible(NodeAddRequirements(m, pod), NodeAddTopology(m, pod, topology).reqs)
         THEN "incompatible topology requirements"
    ELSE NoError

\* Node.Add validating the host ports before the taints
NodeAddErrorPortsFirst(m, pod, topology) ==
    IF HostPortValidate(m.hostPortUsage, pod) # NoError THEN HostPortValidate(m.hostPortUsage, pod)
    ELSE IF Tolerates(m.Taints, pod) # NoError THEN Tolerates(m.Taints, pod)
    ELSE IF ~Compatible(m.Requirements, NewPodRequirements(pod)) THEN "incompatible requirements"
    ELSE IF NodeAddTopology(m, pod, topology).err # NoError THEN NodeAddTopology(m, pod, topology).err
    ELSE IF ~Compatible(NodeAddRequirements(m, pod), NodeAddTopology(m, pod, topology).reqs)
         THEN "incompatible topology requirements"
    ELSE IF Len(NodeAddInstanceTypes(m, pod, topology)) = 0
         THEN "no instance type satisfied resources and requirements"
    ELSE NoError

\* Node.Add, lines 62-97: the error of the first check that fails, or nil
NodeAddError(m, pod, topology) ==
    IF Tolerates(m.Taints, pod) # NoError THEN Tolerates(m.Taints, pod)
    ELSE IF HostPortValidate(m.hostPortUsage, pod) # NoError THEN HostPortValidate(m.hostPortUsage, pod)
    ELSE IF ~Compatible(m.Requirements, NewPodRequirements(pod)) THEN "incompatible requirements"
    ELSE IF NodeAddTopology(m, pod, topology).err # NoError THEN NodeAddTopology(m, pod, topology).err
    ELSE IF ~Compatible(NodeAddRequirements(m, pod), NodeAddTopology(m, pod, topology).reqs)
         THEN "incompatible topology requirements"
    ELSE IF Len(NodeAddInstanceTypes(m, pod, topology)) = 0
         THEN "no instance type satisfied resources and requirements"
    ELSE NoError

\* Node.Add forgetting to absorb the pod's host ports into the node's tracker
NodeAddUpdateForgettingPorts(m, p, pod, topology) ==
    [m EXCEPT !.Pods = Append(m.Pods, p),
              !.InstanceTypeOptions = NodeAddInstanceTypes(m, pod, topology),
              !.Requests = NodeAddRequests(m, pod),
              !.Requirements = NodeAddFinalRequirements(m, pod, topology)]

\* Node.Add, lines 99-105: the node once the pod is accepted
NodeAddUpdate(m, p, pod, topology) ==
    [m EXCEPT !.Pods = Append(m.Pods, p),
              !.InstanceTypeOptions = NodeAddInstanceTypes(m, pod, topology),
              !.Requests = NodeAddRequests(m, pod),
              !.Requirements = NodeAddFinalRequirements(m, pod, topology),
              !.hostPortUsage = HostPortAdd(m.hostPortUsage, pod)]

\* Node.Add storing the accumulated requests before the checks have passed
NodeAddStoringRequestsFirst(m, p, pod, topology) ==
    LET err == NodeAddError(m, pod, topology)
    IN  [err |-> err,
         node |-> IF err = NoError THEN NodeAddUpdate(m, p, pod, topology)
                  ELSE [m EXCEPT !.Requests = NodeAddRequests(m, pod)],
         topology |-> IF err = NoError
                      THEN TopologyRecord(topology, pod, NodeAddFinalRequirements(m, pod, topology))
                      ELSE topology]

\* Node.Add: the error returned, the node and the topology after the call
NodeAdd(m, p, pod, topology) ==
    LET err == NodeAddError(m, pod, topology)
    IN  [err |-> err,
         node |-> IF err = NoError THEN NodeAddUpdate(m, p, pod, topology) ELSE m,
         topology |-> IF err = NoError
                      THEN TopologyRecord(topology, pod, NodeAddFinalRequirements(m, pod, topology))
                      ELSE topology]

\* FinalizeScheduling leaving the hostname requirement in place
FinalizeSchedulingKeepingHostname(m) == m

FinalizeScheduling(m) == [m EXCEPT !.Requirements = ReqDelete(m.Requirements, LabelHostname)]

(***************************************************************************)
(* Existing node wrapper (ExistingNode): the bin-packable view of a state  *)
(* node, with the pods nominated to it in this Solve.                      *)
(***************************************************************************)
NewExistingNode(stateNode, startupTaints, daemonResources) ==
    [Name |-> stateNode.Name,
     Taints |-> startupTaints,
     Requirements |-> [k \in DOMAIN stateNode.Labels |-> {stateNode.Labels[k]}],
     Available |-> stateNode.Available,
     Requests |-> daemonResources,
     Pods |-> <<>>,
     hostPortUsage |-> stateNode.HostPorts]

ExistingNodeAdd(n, p, pod, topology) ==
    LET rejected(e) == [err |-> e, node |-> n, topology |-> topology]
        requests == Merge(n.Requests, RequestsForPods(pod))
        podRequirements == NewPodRequirements(pod)
        nodeRequirements == ReqAdd(n.Requirements, podRequirements)
        topo == TopologyAddRequirements(topology, podRequirements, nodeRequirements, pod)
        nodeRequirements2 == ReqAdd(nodeRequirements, topo.reqs)
    IN  IF Tolerates(n.Taints, pod) # NoError THEN rejected(Tolerates(n.Taints, pod))
        ELSE IF HostPortValidate(n.hostPortUsage, pod) # NoError
             THEN rejected(HostPortValidate(n.hostPortUsage, pod))
        ELSE IF ~Fits(requests, n.Available) THEN rejected("exceeds node resources")
        ELSE IF ~Compatible(n.Requirements, podRequirements) THEN rejected("incompatible requirements")
        ELSE IF topo.err # NoError THEN rejected(topo.err)
        ELSE IF ~Compatible(nodeRequirements, topo.reqs) THEN rejected("incompatible topology requirements")
        ELSE [err |-> NoError,
              node |-> [n EXCEPT !.Pods = Append(n.Pods, p),
                                 !.Requests = requests,
                                 !.Requirements = nodeRequirements2,
                                 !.hostPortUsage = HostPortAdd(n.hostPortUsage, pod)],
              topology |-> TopologyRecord(topology, pod, nodeRequirements2)]

(***************************************************************************)
(* Provisioner limits: the remaining-resource map, provisioner name ->     *)
(* resource list, defined only for the provisioners that have an entry.    *)
(***************************************************************************)
Remaining(remainingResources, name) ==
    IF name \in DOMAIN remainingResources THEN remainingResources[name] ELSE EmptyResourceList

SetRemaining(remainingResources, name, value) ==
    [n \in (DOMAIN remainingResources) \cup {name} |->
        IF n = name THEN value ELSE remainingResources[n]]

\* subtractMax ranging over the resources of the instance types
subtractMaxOverCapacityKeys(remaining, instanceTypes) ==
    IF Len(instanceTypes) = 0 THEN remaining
    ELSE LET itResources == MaxResources({instanceTypes[i].Capacity : i \in 1..Len(instanceTypes)})
         IN  [k \in DOMAIN itResources |-> Quantity(remaining, k) - itResources[k]]

\* subtractMax taking the capacity of the first instance type for the maximum
subtractFirst(remaining, instanceTypes) ==
    IF Len(instanceTypes) = 0 THEN remaining
    ELSE [k \in DOMAIN remaining |-> remaining[k] - Quantity(instanceTypes[1].Capacity, k)]

subtractMax(remaining, instanceTypes) ==
    IF Len(instanceTypes) = 0 THEN remaining
    ELSE LET itResources == MaxResources({instanceTypes[i].Capacity : i \in 1..Len(instanceTypes)})
         IN  [k \in DOMAIN remaining |-> remaining[k] - Quantity(itResources, k)]

\* filterByRemainingResources letting every instance type through
filterByRemainingResourcesKeepingAll(instanceTypes, remaining) == instanceTypes

filterByRemainingResources(instanceTypes, remaining) ==
    SelectSeq(instanceTypes,
              LAMBDA it : \A resourceName \in DOMAIN remaining :
                              ~(Cmp(Quantity(it.Capacity, resourceName), remaining[resourceName]) > 0))

\* add, lines 360-363: the instance types a new node of the provisioner may use
TemplateInstanceTypes(name, remainingResources) ==
    IF name \in DOMAIN remainingResources
    THEN filterByRemainingResources(InstanceTypesOf[name], remainingResources[name])
    ELSE InstanceTypesOf[name]

\* NewScheduler: the remaining resources start from the declared limits
LimitsOf(limits) == [name \in DOMAIN limits |-> limits[name]]

\* NewScheduler: tolerate PreferNoSchedule when a provisioner declares such a taint
ToleratePreferNoSchedule(machines) ==
    \E i \in 1..Len(machines) :
        \E taint \in MachineTemplateCatalog[machines[i]].Taints : taint.Effect = "PreferNoSchedule"

\* calculateExistingMachines subtracting the capacities without keeping the nodes
RECURSIVE calculateExistingMachinesDroppingNodes(_, _, _, _)
calculateExistingMachinesDroppingNodes(namedNodeTemplates, nodes, existing, remaining) ==
    IF nodes = <<>> THEN [existingNodes |-> existing, remainingResources |-> remaining]
    ELSE LET node == StateNodeCatalog[Head(nodes)]
         IN  IF ProvisionerNameLabelKey \notin DOMAIN node.Labels
             THEN calculateExistingMachinesDroppingNodes(namedNodeTemplates, Tail(nodes), existing, remaining)
             ELSE LET name == node.Labels[ProvisionerNameLabelKey]
                  IN  IF name \notin namedNodeTemplates
                      THEN calculateExistingMachinesDroppingNodes(namedNodeTemplates, Tail(nodes), existing, remaining)
                      ELSE calculateExistingMachinesDroppingNodes(namedNodeTemplates, Tail(nodes), existing,
                             SetRemaining(remaining, name,
                                          Subtract(Remaining(remaining, name), node.Capacity)))

\* calculateExistingMachines charging the nodes of unrecognised provisioners
RECURSIVE calculateExistingMachinesChargingUnknown(_, _, _, _)
calculateExistingMachinesChargingUnknown(namedNodeTemplates, nodes, existing, remaining) ==
    IF nodes = <<>> THEN [existingNodes |-> existing, remainingResources |-> remaining]
    ELSE LET node == StateNodeCatalog[Head(nodes)]
         IN  IF ProvisionerNameLabelKey \notin DOMAIN node.Labels
             THEN calculateExistingMachinesChargingUnknown(namedNodeTemplates, Tail(nodes), existing, remaining)
             ELSE LET name == node.Labels[ProvisionerNameLabelKey]
                  IN  calculateExistingMachinesChargingUnknown(namedNodeTemplates, Tail(nodes),
                         IF name \in namedNodeTemplates
                         THEN Append(existing,
                                     NewExistingNode(node, MachineTemplateCatalog[name].StartupTaints,
                                                     DaemonOverheadOf[name]))
                         ELSE existing,
                         SetRemaining(remaining, name,
                                      Subtract(Remaining(remaining, name), node.Capacity)))

RECURSIVE calculateExistingMachines(_, _, _, _)
calculateExistingMachines(namedNodeTemplates, nodes, existing, remaining) ==
    IF nodes = <<>> THEN [existingNodes |-> existing, remainingResources |-> remaining]
    ELSE LET node == StateNodeCatalog[Head(nodes)]
         IN  IF ProvisionerNameLabelKey \notin DOMAIN node.Labels
             THEN calculateExistingMachines(namedNodeTemplates, Tail(nodes), existing, remaining)
             ELSE LET name == node.Labels[ProvisionerNameLabelKey]
                  IN  IF name \notin namedNodeTemplates
                      THEN calculateExistingMachines(namedNodeTemplates, Tail(nodes), existing, remaining)
                      ELSE calculateExistingMachines(namedNodeTemplates, Tail(nodes),
                             Append(existing,
                                    NewExistingNode(node, MachineTemplateCatalog[name].StartupTaints,
                                                    DaemonOverheadOf[name])),
                             SetRemaining(remaining, name,
                                          Subtract(Remaining(remaining, name), node.Capacity)))

(***************************************************************************)
(* Work queue (Queue): the pods still to be tried, and for each pod pushed *)
(* back without a relaxation the queue length at that push.  Pop stops     *)
(* when the pod at the head was last pushed with the queue at its present  *)
(* length: the queue was cycled through without progress.                  *)
(***************************************************************************)
NewQueue(podIds) == [pods |-> podIds, lastLen |-> [p \in {} |-> 0]]

LastLen(q, p) == IF p \in DOMAIN q.lastLen THEN q.lastLen[p] ELSE 0

QueuePop(q) ==
    IF Len(q.pods) = 0 THEN [ok |-> FALSE, pod |-> 0, q |-> q]
    ELSE IF LastLen(q, Head(q.pods)) = Len(q.pods) THEN [ok |-> FALSE, pod |-> 0, q |-> q]
    ELSE [ok |-> TRUE, pod |-> Head(q.pods), q |-> [q EXCEPT !.pods = Tail(q.pods)]]

QueuePush(q, p, relaxed) ==
    LET pushed == Append(q.pods, p)
    IN  [pods |-> pushed,
         lastLen |-> IF relaxed THEN [x \in {} |-> 0]
                     ELSE [x \in (DOMAIN q.lastLen) \cup {p} |->
                              IF x = p THEN Len(pushed) ELSE q.lastLen[x]]]

QueueList(q) == q.pods

(***************************************************************************)
(* Preference relaxer (Preferences.Relax): one step per call, in the fixed *)
(* order; of the soft constraints the pods here carry: a preferred node    *)
(* affinity term first, then the toleration of PreferNoSchedule taints.    *)
(***************************************************************************)
PreferNoScheduleToleration == Toleration("*", "PreferNoSchedule")

Relax(pod, toleratePreferNoSchedule) ==
    IF pod.PreferredNodeAffinity # <<>>
    THEN [relaxed |-> TRUE, pod |-> [pod EXCEPT !.PreferredNodeAffinity = Tail(pod.PreferredNodeAffinity)]]
    ELSE IF toleratePreferNoSchedule /\ PreferNoScheduleToleration \notin pod.Tolerations
    THEN [relaxed |-> TRUE, pod |-> [pod EXCEPT !.Tolerations = pod.Tolerations \cup {PreferNoScheduleToleration}]]
    ELSE [relaxed |-> FALSE, pod |-> pod]

(***************************************************************************)
(* recordSchedulingResults: the events published and the nominations made  *)
(* on the cluster state.                                                   *)
(***************************************************************************)
ErrorOf(errs, p) == IF p \in DOMAIN errs THEN errs[p] ELSE <<>>

PodFailedToSchedule(p, err) == [type |-> "PodFailedToSchedule", pod |-> p, node |-> "", err |-> err]

NominatePod(p, nodeName) == [type |-> "NominatePod", pod |-> p, node |-> nodeName, err |-> <<>>]

RECURSIVE NominatePodEvents(_)
NominatePodEvents(nodes) ==
    IF nodes = <<>> THEN <<>>
    ELSE [i \in 1..Len(Head(nodes).Pods) |-> NominatePod(Head(nodes).Pods[i], Head(nodes).Name)]
         \o NominatePodEvents(Tail(nodes))

recordSchedulingResults(failedToSchedule, errs, nodes) ==
    [events |-> [i \in 1..Len(failedToSchedule) |->
                    PodFailedToSchedule(failedToSchedule[i], ErrorOf(errs, failedToSchedule[i]))]
                \o NominatePodEvents(nodes),
     nominations |-> LET busy == SelectSeq(nodes, LAMBDA n : Len(n.Pods) > 0)
                     IN  [i \in 1..Len(busy) |-> busy[i].Name]]

\* recording whatever the options say
ShouldRecordAlways(simulationMode) == TRUE

\* Solve, line 294: results are recorded unless the scheduler simulates
ShouldRecord(simulationMode) == ~simulationMode

\* leaving the nodes in whatever order
Unsorted(nodes) ==
    {s \in [1..Len(nodes) -> Range(nodes)] : \A n \in Range(nodes) : \E i \in 1..Len(nodes) : s[i] = n}

\* sort.Slice by pod count: any ordering of the nodes with non-decreasing pod counts
SortedByPodCount(nodes) ==
    {s \in [1..Len(nodes) -> Range(nodes)] :
        /\ \A n \in Range(nodes) : \E i \in 1..Len(nodes) : s[i] = n
        /\ \A i \in 1..Len(nodes) - 1 : ~(Len(s[i + 1].Pods) < Len(s[i].Pods))}

(***************************************************************************)
(* State.                                                                  *)
(***************************************************************************)
VARIABLES
    machineTemplates,    \* Scheduler.machineTemplates: template names, in declaration order
    limits,              \* the declared limits of the provisioners that declare some
    stateNodes,          \* the state nodes NewScheduler was given
    opts,                \* SchedulerOptions
    batch,               \* the pods argument of Solve (pod identities)
    pods,                \* the scheduling view of each pod of the batch
    nodeID,              \* the process-wide counter behind the synthetic hostnames
    topology,            \* Scheduler.topology
    newNodes,            \* Scheduler.newNodes
    existingNodes,       \* Scheduler.existingNodes
    remainingResources,  \* Scheduler.remainingResources
    q,                   \* the work queue of Solve
    errors,              \* the error map of Solve: pod -> error of its last attempt
    pc,                  \* where Solve stands
    idx,                 \* the index of the loop Solve (or add) is in
    cur,                 \* the pod popped from the queue
    errs,                \* the errors add has accumulated over the machine templates
    node,                \* the node add constructed last (line 373)
    lastAdd,             \* the Add call made by the last step, with the error it returned
    cancelled,           \* whether the context given to Solve has been cancelled
    events,              \* what the recorder was asked to publish
    nominations,         \* the NominateNodeForPod calls made on the cluster state
    result               \* what Solve returned

VARIABLES
    finalizing,          \* whether the wrapped reconciler implements FinalizingTypedController
    server,              \* the object of the request as the API server holds it, if it does
    tpc,                 \* where typedDecorator.Reconcile stands
    got,                 \* the error kubeClient.Get returned
    obj,                 \* the object fetched, as the wrapped reconciler leaves it
    stored,              \* the deep copy taken before the dispatch
    calls,               \* the methods of the wrapped reconciler invoked
    recResult,           \* the result the wrapped reconciler returned
    recErr,              \* the error the wrapped reconciler returned
    patches,             \* the patches sent to the API server, with their outcome
    patchErr,            \* the error patch returned
    ret                  \* what typedDecorator.Reconcile returned

typedVars == <<finalizing, server, tpc, got, obj, stored, calls, recResult, recErr, patches,
               patchErr, ret>>

VARIABLES
    apiNodes,            \* the nodes the API server holds: name -> object, or Absent
    apiPods,             \* the pods the API server holds: namespaced name -> object, or Absent
    clusterNodes,        \* the nodes the cluster state tracks
    clusterPods,         \* the pods the cluster state tracks
    reconciled           \* the last Reconcile of a state controller: its request and what it met and returned

stateVars == <<apiNodes, apiPods, clusterNodes, clusterPods, reconciled>>

VARIABLES
    callers              \* the goroutines calling NewNode: where each stands, the counter value it
                         \* was returned, the hostnames it has registered

VARIABLES
    trial                \* one prospective node being offered pods: the node, the topology, the
                         \* number of pods offered, the pod offered last and the error Add returned

VARIABLES
    rerun                \* a Solve repeated from the same inputs: which run this is, the pods as
                         \* they were handed to the first run, and what the first run produced

\* the state outside the scheduler
peripheral == <<typedVars, stateVars, callers, trial, rerun>>

config == <<machineTemplates, limits, stateNodes, opts, batch>>

vars == <<machineTemplates, limits, stateNodes, opts, batch, pods, nodeID, topology, newNodes,
          existingNodes, remainingResources, q, errors, pc, idx, cur, errs, node, lastAdd,
          cancelled, events, nominations, result, peripheral>>

\* the variables of the scheduler
solveVars == <<machineTemplates, limits, stateNodes, opts, batch, pods, nodeID, topology, newNodes,
               existingNodes, remainingResources, q, errors, pc, idx, cur, errs, node, lastAdd,
               cancelled, events, nominations, result>>

NoAdd == [kind |-> "none", target |-> 0, err |-> NoError]

NoNode == [id |-> 0]

Pending == [newNodes |-> <<>>, existingNodes |-> <<>>, err |-> "pending"]

\* the hostname domains of the cluster snapshot the topology was built from
SnapshotTopology(nodes) ==
    LET hostnames == {StateNodeCatalog[nodes[i]].Labels[LabelHostname] : i \in 1..Len(nodes)}
    IN  [domains |-> hostnames, counts |-> [d \in hostnames |-> 0]]

(***************************************************************************)
(* Typed-reconciler wrapper (typedDecorator).  An object is its deletion   *)
(* timestamp (0 is the zero time), its other non-status fields (labels)    *)
(* and its status.                                                         *)
(***************************************************************************)
Objects == [deletionTimestamp : {0, 1}, labels : {0, 1}, status : {0, 1}]

NoObject == [nil |-> TRUE]

EmptyResult == [Requeue |-> FALSE, RequeueAfter |-> 0]

\* what a wrapped reconciler returns
Results == {EmptyResult, [Requeue |-> TRUE, RequeueAfter |-> 0]}

NotFound == "not found"

\* client.IgnoreNotFound: nil for a not-found error, else the error
IgnoreNotFound(err) == IF err = NotFound THEN NoError ELSE err

\* multierr.Combine: the non-nil errors, joined
Combine(e1, e2) ==
    IF e1 = NoError THEN e2
    ELSE IF e2 = NoError THEN e1
    ELSE e1 \o "; " \o e2

\* finalizing an object whenever it is being deleted
ShouldFinalizeAnyReconciler(object, ok) == object.deletionTimestamp # 0

\* typedDecorator.Reconcile, line 533: Finalize is chosen for an object with a
\* non-zero deletion timestamp when the wrapped reconciler implements it
ShouldFinalize(object, ok) == object.deletionTimestamp # 0 /\ ok

\* reflect.ValueOf(updated).IsNil()
IsNil(object) == object = NoObject

\* the object without its status field
WithoutStatus(object) == [k \in (DOMAIN object) \ {"status"} |-> object[k]]

\* comparing the whole objects, status included
bodyEqualWithStatus(a, b) == a = b

\* bodyEqual: deep equality of the objects once their status is removed
bodyEqual(a, b) == WithoutStatus(a) = WithoutStatus(b)

\* statusEqual: deep equality of the statuses
statusEqual(a, b) == a.status = b.status

NoReturn == [result |-> EmptyResult, err |-> "pending"]

\* no reconciliation is under way in the wrapper
TypedIdle ==
    /\ finalizing = FALSE
    /\ server = NoObject
    /\ tpc = "done"
    /\ got = NoError
    /\ obj = NoObject
    /\ stored = NoObject
    /\ calls = <<>>
    /\ recResult = EmptyResult
    /\ recErr = NoError
    /\ patches = <<>>
    /\ patchErr = NoError
    /\ ret = NoReturn

(***************************************************************************)
(* State controllers (NodeController, PodController) and the cluster state *)
(* they feed.  The cluster state is its tracked objects by key.            *)
(***************************************************************************)
NodeKeys == {"n1", "n2"}

PodKeys == {"default/p1", "default/p2"}

Absent == "absent"

\* the contents an object can have
ObjectVersions == {"v1", "v2"}

\* Cluster.DeleteNode, Cluster.DeletePod: the key is tracked no longer
ClusterDelete(cluster, key) == [cluster EXCEPT ![key] = Absent]

\* Cluster.UpdateNode, Cluster.UpdatePod: the object is tracked under its key
ClusterUpdate(cluster, key, object) == [cluster EXCEPT ![key] = object]

\* the retry period of the state controllers, in seconds (1 * time.Minute)
stateRetryPeriod == 60

\* requeueing whatever the update returned
StateReconcileReturnAlwaysRequeue(getErr, updateErr) ==
    [result |-> [Requeue |-> TRUE, RequeueAfter |-> stateRetryPeriod],
     err |-> IF getErr # NoError THEN IgnoreNotFound(getErr) ELSE updateErr]

\* what Reconcile returns, from the errors of Get and of the update
StateReconcileReturn(getErr, updateErr) ==
    IF getErr # NoError THEN [result |-> EmptyResult, err |-> IgnoreNotFound(getErr)]
    ELSE IF updateErr # NoError THEN [result |-> EmptyResult, err |-> updateErr]
    ELSE [result |-> [Requeue |-> TRUE, RequeueAfter |-> stateRetryPeriod], err |-> NoError]

\* the cluster state Reconcile leaves: the key deleted on not-found, the
\* object stored by an update that succeeds, else what it was
StateReconcileCluster(cluster, key, object, getErr, updateErr) ==
    IF getErr = NotFound THEN ClusterDelete(cluster, key)
    ELSE IF getErr # NoError THEN cluster
    ELSE IF updateErr # NoError THEN cluster
    ELSE ClusterUpdate(cluster, key, object)

\* kubeClient.Get: the errors it can return for an object as the API server holds it
GetErrors(object) == {IF object = Absent THEN NotFound ELSE NoError, "get failed"}

\* the errors an update of the cluster state can return for a fetched object
UpdateErrors(getErr) == IF getErr = NoError THEN {NoError, "update failed"} ELSE {NoError}

NoReconcile == [controller |-> "none"]

\* no state controller has run and nothing is tracked
StateIdle ==
    /\ apiNodes = [k \in NodeKeys |-> Absent]
    /\ apiPods = [k \in PodKeys |-> Absent]
    /\ clusterNodes = [k \in NodeKeys |-> Absent]
    /\ clusterPods = [k \in PodKeys |-> Absent]
    /\ reconciled = NoReconcile

(***************************************************************************)
(* Goroutines that call NewNode concurrently, as the Solves of several     *)
(* schedulers do.                                                          *)
(***************************************************************************)
Goroutines == {1, 2, 3}

\* the number of NewNode calls a goroutine makes
MaxCalls == 2

\* the values the process-wide counter starts the run at
StartIDs == {0, 9997}

NoCaller == [pc |-> "idle", id |-> 0, hostnames |-> <<>>]

CallersIdle == callers = [g \in Goroutines |-> NoCaller]

(***************************************************************************)
(* One prospective node offered pods of every shape, one after the other.  *)
(***************************************************************************)
\* the number of pods offered to the node
MaxOffers == 2

\* the pods offered: with or without a host port, a zone selector, a
\* required anti-affinity and the toleration of the PreferNoSchedule taint
OfferedPods ==
    {[Requests |-> requests, HostPorts |-> ports, NodeSelector |-> selector,
      PreferredNodeAffinity |-> <<>>, AntiAffinity |-> anti, Tolerations |-> tolerations] :
        requests \in {[cpu |-> 1], [cpu |-> 4]},
        ports \in {{}, {HostPort("0.0.0.0", 80)}},
        selector \in {NewRequirements, (LabelTopologyZone :> {"z1"}), (LabelTopologyZone :> {"z2"})},
        anti \in {"none", "required"},
        tolerations \in {{}, {PreferNoScheduleToleration}}}

NoTrial == [offered |-> 0]

TrialIdle == trial = NoTrial

NoRerun == [run |-> 0]

RerunIdle == rerun = NoRerun

\* a scheduler as NewScheduler leaves it, about to Solve a batch: its machine
\* templates are one of templateLists, the limits of its provisioners one of
\* limitChoices, its options one of options, the batch has at most maxPods pods
SolveInit(templateLists, limitChoices, options, maxPods) ==
    /\ machineTemplates \in templateLists
    /\ limits \in {l \in limitChoices : DOMAIN l \subseteq Range(machineTemplates)}
    /\ stateNodes \in StateNodeLists
    /\ opts \in options
    /\ \E kinds \in SeqsUpTo(PodKinds, maxPods) :
          /\ batch = [i \in 1..Len(kinds) |-> i]
          /\ pods = [i \in 1..Len(kinds) |-> PodCatalog[kinds[i]]]
    /\ nodeID = 0
    /\ topology = SnapshotTopology(stateNodes)
    /\ newNodes = <<>>
    /\ LET s == calculateExistingMachines(Range(machineTemplates), stateNodes, <<>>, LimitsOf(limits))
       IN  /\ existingNodes = s.existingNodes
           /\ remainingResources = s.remainingResources
    /\ q = NewQueue(batch)
    /\ errors = [p \in {} |-> <<>>]
    /\ pc = "pop"
    /\ idx = 1
    /\ cur = 0
    /\ errs = <<>>
    /\ node = NoNode
    /\ lastAdd = NoAdd
    /\ cancelled = FALSE
    /\ events = <<>>
    /\ nominations = <<>>
    /\ result = Pending

SchedulerInit(templateLists, limitChoices, options, maxPods) ==
    /\ SolveInit(templateLists, limitChoices, options, maxPods)
    /\ TypedIdle
    /\ StateIdle
    /\ CallersIdle
    /\ TrialIdle
    /\ RerunIdle

Init == SchedulerInit(TemplateLists, LimitChoices, [SimulationMode : BOOLEAN], MaxPods)

SetError(p, e) == [x \in (DOMAIN errors) \cup {p} |-> IF x = p THEN e ELSE errors[x]]

(***************************************************************************)
(* Solve, lines 269-274: pop the next pod, or leave the loop.              *)
(***************************************************************************)
Pop ==
    /\ pc = "pop"
    /\ LET r == QueuePop(q)
       IN  IF r.ok
           THEN /\ q' = r.q
                /\ cur' = r.pod
                /\ pc' = IF Len(existingNodes) > 0 THEN "existing" ELSE "sort"
           ELSE /\ pc' = "finalize"
                /\ UNCHANGED <<q, cur>>
    /\ idx' = 1
    /\ lastAdd' = NoAdd
    /\ UNCHANGED <<config, peripheral, pods, nodeID, topology, newNodes, existingNodes, remainingResources,
                   errors, errs, node, cancelled, events, nominations, result>>

(***************************************************************************)
(* add, lines 341-345: offer the pod to the next existing node.            *)
(***************************************************************************)
TryExistingNode ==
    /\ pc = "existing"
    /\ LET r == ExistingNodeAdd(existingNodes[idx], cur, pods[cur], topology)
       IN  /\ lastAdd' = [kind |-> "existing", target |-> idx, err |-> r.err]
           /\ existingNodes' = [existingNodes EXCEPT ![idx] = r.node]
           /\ topology' = r.topology
           /\ IF r.err = NoError
              THEN /\ errors' = SetError(cur, <<>>)
                   /\ pc' = "pop"
                   /\ idx' = 1
              ELSE /\ pc' = IF idx = Len(existingNodes) THEN "sort" ELSE "existing"
                   /\ idx' = IF idx = Len(existingNodes) THEN 1 ELSE idx + 1
                   /\ UNCHANGED errors
    /\ UNCHANGED <<config, peripheral, pods, nodeID, newNodes, remainingResources, q, cur, errs, node,
                   cancelled, events, nominations, result>>

(***************************************************************************)
(* add, line 348: sort the prospective nodes by pod count.                 *)
(***************************************************************************)
\* the keys sort.Slice compares
PodCounts(nodes) == [i \in 1..Len(nodes) |-> Len(nodes[i].Pods)]

\* where each node of the sorted list stood before the sort
Permutation(nodes, sorted) ==
    [i \in 1..Len(nodes) |-> CHOOSE j \in 1..Len(nodes) : nodes[j] = sorted[i]]

\* sort.Slice is not stable, but it is a function of the keys it compares:
\* where a Solve is repeated, equal keys are permuted as they were before
SortSliceAsBefore(nodes, sorted) ==
    IF rerun.run = 0 THEN TRUE
    ELSE \A seen \in rerun.sorts :
            seen.keys = PodCounts(nodes) => seen.permutation = Permutation(nodes, sorted)

SortNewNodes ==
    /\ pc = "sort"
    /\ \E sorted \in SortedByPodCount(newNodes) :
          /\ SortSliceAsBefore(newNodes, sorted)
          /\ newNodes' = sorted
          /\ IF rerun.run = 0
             THEN UNCHANGED rerun
             ELSE rerun' = [rerun EXCEPT
                               !.sorts = rerun.sorts \cup {[keys |-> PodCounts(newNodes),
                                                            permutation |-> Permutation(newNodes, sorted)]}]
    /\ pc' = IF Len(newNodes) > 0 THEN "new" ELSE "template"
    /\ idx' = 1
    /\ errs' = <<>>
    /\ lastAdd' = NoAdd
    /\ UNCHANGED <<config, typedVars, stateVars, callers, trial, pods, nodeID, topology, existingNodes,
                   remainingResources, q, errors, cur, node, cancelled, events, nominations, result>>

(***************************************************************************)
(* add, lines 351-355: offer the pod to the next prospective node.         *)
(***************************************************************************)
TryNewNode ==
    /\ pc = "new"
    /\ LET r == NodeAdd(newNodes[idx], cur, pods[cur], topology)
       IN  /\ lastAdd' = [kind |-> "new", target |-> newNodes[idx].id, err |-> r.err]
           /\ newNodes' = [newNodes EXCEPT ![idx] = r.node]
           /\ topology' = r.topology
           /\ IF r.err = NoError
              THEN /\ errors' = SetError(cur, <<>>)
                   /\ pc' = "pop"
                   /\ idx' = 1
              ELSE /\ pc' = IF idx = Len(newNodes) THEN "template" ELSE "new"
                   /\ idx' = IF idx = Len(newNodes) THEN 1 ELSE idx + 1
                   /\ UNCHANGED errors
    /\ UNCHANGED <<config, peripheral, pods, nodeID, existingNodes, remainingResources, q, cur, errs, node,
                   cancelled, events, nominations, result>>

\* add filtering by the limits only when not simulating
AddInstanceTypesFilteredUnlessSimulating(name, remaining, simulationMode) ==
    IF simulationMode THEN InstanceTypesOf[name] ELSE TemplateInstanceTypes(name, remaining)

\* add, lines 360-371: the instance types handed to NewNode; SimulationMode
\* decides only whether the exclusion of instance types is logged
AddInstanceTypes(name, remaining, simulationMode) ==
    TemplateInstanceTypes(name, remaining)

(***************************************************************************)
(* add, lines 359-382: one machine template.  The instance types are       *)
(* filtered by the provisioner's remaining resources when it has an entry; *)
(* a fresh node is constructed and offered the pod; an accepting node is   *)
(* appended and its maximum capacity subtracted from the remaining         *)
(* resources.                                                              *)
(***************************************************************************)
TryTemplate ==
    /\ pc = "template"
    /\ idx <= Len(machineTemplates)
    /\ LET nodeTemplate == machineTemplates[idx]
           name == MachineTemplateCatalog[nodeTemplate].ProvisionerName
           limited == name \in DOMAIN remainingResources
           instanceTypes == AddInstanceTypes(name, remainingResources, opts.SimulationMode)
           made == NewNode(nodeTemplate, topology, DaemonOverheadOf[nodeTemplate], instanceTypes, AtomicAddInt64(nodeID, 1))
           r == NodeAdd(made.node, cur, pods[cur], made.topology)
       IN  IF limited /\ Len(instanceTypes) = 0
           THEN /\ errs' = Append(errs, "all available instance types exceed provisioner limits")
                /\ idx' = idx + 1
                /\ lastAdd' = NoAdd
                /\ UNCHANGED <<nodeID, topology, node, newNodes, remainingResources, errors, pc>>
           ELSE /\ nodeID' = AtomicAddInt64(nodeID, 1)
                /\ node' = r.node
                /\ topology' = r.topology
                /\ lastAdd' = [kind |-> "template", target |-> r.node.id, err |-> r.err]
                /\ IF r.err # NoError
                   THEN /\ errs' = Append(errs, "incompatible with provisioner " \o name \o ", " \o r.err)
                        /\ idx' = idx + 1
                        /\ UNCHANGED <<newNodes, remainingResources, errors, pc>>
                   ELSE /\ newNodes' = Append(newNodes, r.node)
                        /\ remainingResources' =
                              SetRemaining(remainingResources, name,
                                           subtractMax(Remaining(remainingResources, name),
                                                       r.node.InstanceTypeOptions))
                        /\ errors' = SetError(cur, <<>>)
                        /\ pc' = "pop"
                        /\ idx' = 1
                        /\ UNCHANGED errs
    /\ UNCHANGED <<config, peripheral, pods, existingNodes, q, cur, cancelled, events, nominations, result>>

\* pushing a failed pod back as if it had been relaxed
SolvePushAsRelaxed(queue, p, relaxed) == QueuePush(queue, p, TRUE)

\* pushing a failed pod back only when it was relaxed
SolvePushOnlyRelaxed(queue, p, relaxed) == IF relaxed THEN QueuePush(queue, p, TRUE) ELSE queue

\* Solve, line 283: the failed pod is pushed back together with the relaxer's answer
SolvePush(queue, p, relaxed) == QueuePush(queue, p, relaxed)

(***************************************************************************)
(* add, line 383, and Solve, lines 277-288: no machine template is left;   *)
(* add returns the accumulated errors.  With a nil error the pod counts as *)
(* scheduled, otherwise it is relaxed and pushed back.                     *)
(***************************************************************************)
AddReturns ==
    /\ pc = "template"
    /\ idx > Len(machineTemplates)
    /\ errors' = SetError(cur, errs)
    /\ IF errs = <<>>
       THEN UNCHANGED <<pods, q>>
       ELSE LET r == Relax(pods[cur], ToleratePreferNoSchedule(machineTemplates))
            IN  /\ pods' = [pods EXCEPT ![cur] = r.pod]
                /\ q' = SolvePush(q, cur, r.relaxed)
    /\ pc' = "pop"
    /\ idx' = 1
    /\ lastAdd' = NoAdd
    /\ UNCHANGED <<config, peripheral, nodeID, topology, newNodes, existingNodes, remainingResources, cur,
                   errs, node, cancelled, events, nominations, result>>

(***************************************************************************)
(* Solve, lines 291-293: finalize the next prospective node.               *)
(***************************************************************************)
FinalizeNode ==
    /\ pc = "finalize"
    /\ idx <= Len(newNodes)
    /\ newNodes' = [newNodes EXCEPT ![idx] = FinalizeScheduling(newNodes[idx])]
    /\ idx' = idx + 1
    /\ lastAdd' = NoAdd
    /\ UNCHANGED <<config, peripheral, pods, nodeID, topology, existingNodes, remainingResources, q, errors,
                   pc, cur, errs, node, cancelled, events, nominations, result>>

\* Solve returning the cancellation of its context
SolveErrorOnCancel(ctxCancelled) == IF ctxCancelled THEN "context canceled" ELSE NoError

\* Solve, line 297: the error Solve returns, whatever became of its context
SolveError(ctxCancelled) == NoError

(***************************************************************************)
(* Solve, lines 294-297: record the results unless simulating, and return. *)
(***************************************************************************)
Return ==
    /\ pc = "finalize"
    /\ idx > Len(newNodes)
    /\ IF ShouldRecord(opts.SimulationMode)
       THEN LET r == recordSchedulingResults(QueueList(q), errors, existingNodes)
            IN  /\ events' = events \o r.events
                /\ nominations' = nominations \o r.nominations
       ELSE UNCHANGED <<events, nominations>>
    /\ result' = [newNodes |-> newNodes, existingNodes |-> existingNodes, err |-> SolveError(cancelled)]
    /\ pc' = "done"
    /\ lastAdd' = NoAdd
    /\ UNCHANGED <<config, peripheral, pods, nodeID, topology, newNodes, existingNodes, remainingResources, q,
                   errors, idx, cur, errs, node, cancelled>>

(***************************************************************************)
(* The caller cancels the context while Solve is still processing pods.    *)
(***************************************************************************)
Cancel ==
    /\ pc \in {"existing", "sort", "new", "template"} \/ (pc = "pop" /\ QueuePop(q).ok)
    /\ ~cancelled
    /\ cancelled' = TRUE
    /\ UNCHANGED <<config, peripheral, pods, nodeID, topology, newNodes, existingNodes, remainingResources, q,
                   errors, pc, idx, cur, errs, node, lastAdd, events, nominations, result>>

Next ==
    \/ Pop
    \/ TryExistingNode
    \/ SortNewNodes
    \/ TryNewNode
    \/ TryTemplate
    \/ AddReturns
    \/ FinalizeNode
    \/ Return
    \/ Cancel

Spec == Init /\ [][Next]_vars

(***************************************************************************)
(* Solve on a batch one pod longer, by a scheduler with both machine       *)
(* templates and no provisioner limits that records its results: long      *)
(* enough for prospective nodes of different pod counts to be offered a    *)
(* pod.                                                                    *)
(***************************************************************************)
LongInit ==
    SchedulerInit({<<"a", "b">>}, {l \in LimitChoices : DOMAIN l = {}},
                  {[SimulationMode |-> FALSE]}, MaxPods + 1)

LongSpec == LongInit /\ [][Next]_vars

\* no scheduler is at work
SolveIdle ==
    /\ machineTemplates = <<>>
    /\ limits = <<>>
    /\ stateNodes = <<>>
    /\ opts = [SimulationMode |-> FALSE]
    /\ batch = <<>>
    /\ pods = <<>>
    /\ topology = SnapshotTopology(<<>>)
    /\ newNodes = <<>>
    /\ existingNodes = <<>>
    /\ remainingResources = <<>>
    /\ q = NewQueue(<<>>)
    /\ errors = <<>>
    /\ pc = "done"
    /\ idx = 1
    /\ cur = 0
    /\ errs = <<>>
    /\ node = NoNode
    /\ lastAdd = NoAdd
    /\ cancelled = FALSE
    /\ events = <<>>
    /\ nominations = <<>>
    /\ result = [newNodes |-> <<>>, existingNodes |-> <<>>, err |-> NoError]

(***************************************************************************)
(* typedDecorator.Reconcile on one event: the request names an object the  *)
(* API server holds or does not hold; the wrapped reconciler implements    *)
(* finalizing or does not.                                                 *)
(***************************************************************************)
TypedInit ==
    /\ SolveIdle
    /\ nodeID = 0
    /\ StateIdle
    /\ CallersIdle
    /\ TrialIdle
    /\ RerunIdle
    /\ finalizing \in BOOLEAN
    /\ server \in Objects \cup {NoObject}
    /\ tpc = "get"
    /\ got = NoError
    /\ obj = NoObject
    /\ stored = NoObject
    /\ calls = <<>>
    /\ recResult = EmptyResult
    /\ recErr = NoError
    /\ patches = <<>>
    /\ patchErr = NoError
    /\ ret = NoReturn

\* lines 524-527: fetch the object; a failed Get ends the reconciliation
TypedGet ==
    /\ tpc = "get"
    /\ \E failure \in BOOLEAN :
          LET err == IF failure THEN "get failed"
                     ELSE IF server = NoObject THEN NotFound
                     ELSE NoError
          IN  /\ got' = err
              /\ IF err # NoError
                 THEN /\ ret' = [result |-> EmptyResult, err |-> IgnoreNotFound(err)]
                      /\ tpc' = "done"
                      /\ UNCHANGED <<obj, stored>>
                 ELSE /\ obj' = server
                      /\ stored' = server
                      /\ tpc' = "dispatch"
                      /\ UNCHANGED ret
    /\ UNCHANGED <<solveVars, stateVars, callers, trial, rerun, finalizing, server, calls, recResult, recErr, patches, patchErr>>

\* lines 532-537: Finalize or Reconcile; the reconciler may change the labels
\* and the status of the object it is given, and returns a result and an error
TypedDispatch ==
    /\ tpc = "dispatch"
    /\ calls' = Append(calls, IF ShouldFinalize(obj, finalizing) THEN "Finalize" ELSE "Reconcile")
    /\ \E labels \in {0, 1}, status \in {0, 1} :
          obj' = [obj EXCEPT !.labels = labels, !.status = status]
    /\ recResult' \in Results
    /\ recErr' \in {NoError, "reconcile failed"}
    /\ tpc' = "patchBody"
    /\ UNCHANGED <<solveVars, stateVars, callers, trial, rerun, finalizing, server, got, stored, patches, patchErr, ret>>

\* patch, lines 551-559: nothing is patched for a nil object; the body is
\* patched if it differs, and a failure of that patch is returned at once
TypedPatchBody ==
    /\ tpc = "patchBody"
    /\ IF IsNil(obj)
       THEN /\ tpc' = "return"
            /\ UNCHANGED <<server, patches, patchErr>>
       ELSE IF ~bodyEqual(stored, obj)
       THEN \E e \in {NoError, "patch failed"} :
               /\ patches' = Append(patches, [what |-> "body", err |-> e])
               /\ patchErr' = e
               /\ server' = IF e = NoError THEN [server EXCEPT !.labels = obj.labels] ELSE server
               /\ tpc' = IF e = NoError THEN "patchStatus" ELSE "return"
       ELSE /\ tpc' = "patchStatus"
            /\ UNCHANGED <<server, patches, patchErr>>
    /\ UNCHANGED <<solveVars, stateVars, callers, trial, rerun, finalizing, got, obj, stored, calls, recResult, recErr, ret>>

\* patch, lines 560-566: the status is patched if it differs
TypedPatchStatus ==
    /\ tpc = "patchStatus"
    /\ IF ~statusEqual(stored, obj)
       THEN \E e \in {NoError, "status patch failed"} :
               /\ patches' = Append(patches, [what |-> "status", err |-> e])
               /\ patchErr' = e
               /\ server' = IF e = NoError THEN [server EXCEPT !.status = obj.status] ELSE server
       ELSE UNCHANGED <<server, patches, patchErr>>
    /\ tpc' = "return"
    /\ UNCHANGED <<solveVars, stateVars, callers, trial, rerun, finalizing, got, obj, stored, calls, recResult, recErr, ret>>

\* lines 539-542: a patch error is returned combined with the reconciler's
\* error and with an empty result; else the reconciler's result and error
TypedReturn ==
    /\ tpc = "return"
    /\ ret' = IF patchErr # NoError
              THEN [result |-> EmptyResult, err |-> Combine(patchErr, recErr)]
              ELSE [result |-> recResult, err |-> recErr]
    /\ tpc' = "done"
    /\ UNCHANGED <<solveVars, stateVars, callers, trial, rerun, finalizing, server, got, obj, stored, calls, recResult, recErr,
                   patches, patchErr>>

TypedNext ==
    \/ TypedGet
    \/ TypedDispatch
    \/ TypedPatchBody
    \/ TypedPatchStatus
    \/ TypedReturn

TypedSpec == TypedInit /\ [][TypedNext]_vars

(***************************************************************************)
(* The state controllers at work: the API server's nodes and pods come, go *)
(* and change, and reconcile requests arrive for their keys.               *)
(***************************************************************************)
StateInit ==
    /\ SolveIdle
    /\ nodeID = 0
    /\ TypedIdle
    /\ StateIdle
    /\ CallersIdle
    /\ TrialIdle
    /\ RerunIdle

\* a node is created or changed on the API server
ApiPutNode ==
    /\ \E k \in NodeKeys, v \in ObjectVersions : apiNodes' = [apiNodes EXCEPT ![k] = v]
    /\ reconciled' = NoReconcile
    /\ UNCHANGED <<solveVars, typedVars, callers, trial, rerun, apiPods, clusterNodes, clusterPods>>

\* a node is deleted from the API server
ApiDeleteNode ==
    /\ \E k \in NodeKeys : apiNodes' = [apiNodes EXCEPT ![k] = Absent]
    /\ reconciled' = NoReconcile
    /\ UNCHANGED <<solveVars, typedVars, callers, trial, rerun, apiPods, clusterNodes, clusterPods>>

\* a pod is created or changed on the API server
ApiPutPod ==
    /\ \E k \in PodKeys, v \in ObjectVersions : apiPods' = [apiPods EXCEPT ![k] = v]
    /\ reconciled' = NoReconcile
    /\ UNCHANGED <<solveVars, typedVars, callers, trial, rerun, apiNodes, clusterNodes, clusterPods>>

\* a pod is deleted from the API server
ApiDeletePod ==
    /\ \E k \in PodKeys : apiPods' = [apiPods EXCEPT ![k] = Absent]
    /\ reconciled' = NoReconcile
    /\ UNCHANGED <<solveVars, typedVars, callers, trial, rerun, apiNodes, clusterNodes, clusterPods>>

\* NodeController.Reconcile
NodeReconcile ==
    /\ \E k \in NodeKeys :
          \E getErr \in GetErrors(apiNodes[k]) :
             \E updateErr \in UpdateErrors(getErr) :
                /\ clusterNodes' = StateReconcileCluster(clusterNodes, k, apiNodes[k], getErr, updateErr)
                /\ reconciled' = [controller |-> "node-state", key |-> k, get |-> getErr,
                                  update |-> updateErr,
                                  ret |-> StateReconcileReturn(getErr, updateErr)]
    /\ UNCHANGED <<solveVars, typedVars, callers, trial, rerun, apiNodes, apiPods, clusterPods>>

\* PodController.Reconcile
PodReconcile ==
    /\ \E k \in PodKeys :
          \E getErr \in GetErrors(apiPods[k]) :
             \E updateErr \in UpdateErrors(getErr) :
                /\ clusterPods' = StateReconcileCluster(clusterPods, k, apiPods[k], getErr, updateErr)
                /\ reconciled' = [controller |-> "pod-state", key |-> k, get |-> getErr,
                                  update |-> updateErr,
                                  ret |-> StateReconcileReturn(getErr, updateErr)]
    /\ UNCHANGED <<solveVars, typedVars, callers, trial, rerun, apiNodes, apiPods, clusterNodes>>

StateNext ==
    \/ ApiPutNode
    \/ ApiDeleteNode
    \/ ApiPutPod
    \/ ApiDeletePod
    \/ NodeReconcile
    \/ PodReconcile

StateSpec == StateInit /\ [][StateNext]_vars

(***************************************************************************)
(* NewNode called from concurrent goroutines: the add on the process-wide  *)
(* counter is one atomic step; formatting and registering the hostname     *)
(* follow in the caller's own time.                                        *)
(***************************************************************************)
HostnameInit ==
    /\ SolveIdle
    /\ nodeID \in StartIDs
    /\ TypedIdle
    /\ StateIdle
    /\ CallersIdle
    /\ TrialIdle
    /\ RerunIdle

\* the variables of the scheduler but the counter
solveVarsButNodeID ==
    <<machineTemplates, limits, stateNodes, opts, batch, pods, topology, newNodes, existingNodes,
      remainingResources, q, errors, pc, idx, cur, errs, node, lastAdd, cancelled, events,
      nominations, result>>

\* NewNode, line 46: atomic.AddInt64(&nodeID, 1)
CallerAdds(g) ==
    /\ callers[g].pc = "idle"
    /\ Len(callers[g].hostnames) < MaxCalls
    /\ nodeID' = AtomicAddInt64(nodeID, 1)
    /\ callers' = [callers EXCEPT ![g].pc = "format", ![g].id = AtomicAddInt64(nodeID, 1)]
    /\ UNCHANGED <<solveVarsButNodeID, typedVars, stateVars, trial, rerun>>

\* NewNode, lines 46-47: the hostname is formatted from the value returned and registered
CallerRegisters(g) ==
    /\ callers[g].pc = "format"
    /\ callers' = [callers EXCEPT ![g].pc = "idle",
                                  ![g].hostnames = Append(@, PlaceholderHostname(callers[g].id))]
    /\ UNCHANGED <<solveVars, typedVars, stateVars, trial, rerun>>

HostnameNext ==
    \/ \E g \in Goroutines : CallerAdds(g)
    \/ \E g \in Goroutines : CallerRegisters(g)

HostnameSpec == HostnameInit /\ [][HostnameNext]_vars

(***************************************************************************)
(* Node.Add on one prospective node: a node fresh from NewNode for either  *)
(* machine template is offered pods, and keeps those it accepts.           *)
(***************************************************************************)
AddInit ==
    /\ SolveIdle
    /\ nodeID = 1
    /\ TypedIdle
    /\ StateIdle
    /\ CallersIdle
    /\ RerunIdle
    /\ \E t \in DOMAIN MachineTemplateCatalog :
          LET made == NewNode(t, SnapshotTopology(<<>>), DaemonOverheadOf[t], InstanceTypesOf[t], 1)
          IN  trial = [offered |-> 0, node |-> made.node, topology |-> made.topology,
                       pod |-> NoNode, err |-> NoError]

\* Node.Add, lines 62-107
OfferPod ==
    /\ trial.offered < MaxOffers
    /\ \E pod \in OfferedPods :
          LET r == NodeAdd(trial.node, trial.offered + 1, pod, trial.topology)
          IN  trial' = [offered |-> trial.offered + 1, node |-> r.node, topology |-> r.topology,
                        pod |-> pod, err |-> r.err]
    /\ UNCHANGED <<solveVars, typedVars, stateVars, callers, rerun>>

AddNext == OfferPod

AddSpec == AddInit /\ [][AddNext]_vars

(***************************************************************************)
(* NewScheduler: the remaining resources start from the declared limits,   *)
(* and calculateExistingMachines walks the state nodes one by one.         *)
(***************************************************************************)
\* the longest list of state nodes handed to NewScheduler
MaxStateNodes == 3

\* the lists of distinct state nodes
ConstructStateNodeLists ==
    {l \in SeqsUpTo(DOMAIN StateNodeCatalog, MaxStateNodes) :
        \A i, j \in 1..Len(l) : l[i] = l[j] => i = j}

\* Provisioner.Spec.Limits of the provisioners, with or without a machine template
ConstructLimitChoices ==
    UNION {[D -> {[cpu |-> 8], [cpu |-> 2, memory |-> 8]}] : D \in SUBSET {"a", "b"}}

ConstructInit ==
    /\ machineTemplates \in TemplateLists
    /\ limits \in ConstructLimitChoices
    /\ stateNodes \in ConstructStateNodeLists
    /\ opts = [SimulationMode |-> FALSE]
    /\ batch = <<>>
    /\ pods = <<>>
    /\ nodeID = 0
    /\ topology = SnapshotTopology(stateNodes)
    /\ newNodes = <<>>
    /\ existingNodes = <<>>
    /\ remainingResources = LimitsOf(limits)
    /\ q = NewQueue(<<>>)
    /\ errors = <<>>
    /\ pc = "construct"
    /\ idx = 1
    /\ cur = 0
    /\ errs = <<>>
    /\ node = NoNode
    /\ lastAdd = NoAdd
    /\ cancelled = FALSE
    /\ events = <<>>
    /\ nominations = <<>>
    /\ result = Pending
    /\ TypedIdle
    /\ StateIdle
    /\ CallersIdle
    /\ TrialIdle
    /\ RerunIdle

solveVarsButConstruction ==
    <<config, pods, nodeID, topology, newNodes, q, errors, cur, errs, node, lastAdd, cancelled, events,
      nominations, result>>

\* calculateExistingMachines, lines 388-405: one turn of the loop
ConsiderStateNode ==
    /\ pc = "construct"
    /\ idx <= Len(stateNodes)
    /\ LET s == calculateExistingMachines(Range(machineTemplates), <<stateNodes[idx]>>, existingNodes,
                                          remainingResources)
       IN  /\ existingNodes' = s.existingNodes
           /\ remainingResources' = s.remainingResources
    /\ idx' = idx + 1
    /\ UNCHANGED <<pc, solveVarsButConstruction, peripheral>>

\* NewScheduler, line 242
ConstructReturns ==
    /\ pc = "construct"
    /\ idx > Len(stateNodes)
    /\ pc' = "constructed"
    /\ idx' = 1
    /\ UNCHANGED <<existingNodes, remainingResources, solveVarsButConstruction, peripheral>>

ConstructNext == ConsiderStateNode \/ ConstructReturns

ConstructSpec == ConstructInit /\ [][ConstructNext]_vars

(***************************************************************************)
(* Two Solves from the same inputs and the same scheduler state, the first *)
(* with SimulationMode set and the second without; the process-wide nodeID *)
(* runs on from one to the other.                                          *)
(***************************************************************************)
\* what a Solve decided: the prospective nodes with their pods and instance
\* types, the pods on the existing nodes, the failed pods with their errors,
\* and the remaining budgets
Outcome ==
    [newNodes |-> [i \in 1..Len(result.newNodes) |->
                      [ProvisionerName |-> result.newNodes[i].ProvisionerName,
                       Pods |-> result.newNodes[i].Pods,
                       InstanceTypeOptions |-> result.newNodes[i].InstanceTypeOptions]],
     existingNodes |-> [i \in 1..Len(result.existingNodes) |->
                           [Name |-> result.existingNodes[i].Name, Pods |-> result.existingNodes[i].Pods]],
     failed |-> QueueList(q),
     errors |-> [p \in Range(QueueList(q)) |-> errors[p]],
     remainingResources |-> remainingResources,
     err |-> result.err]

PairInit ==
    /\ SolveInit(TemplateLists, LimitChoices, {[SimulationMode |-> TRUE]}, MaxPods)
    /\ TypedIdle
    /\ StateIdle
    /\ CallersIdle
    /\ TrialIdle
    /\ rerun = [run |-> 1, pods |-> pods, sorts |-> {}]

\* a second scheduler is built by NewScheduler from the inputs of the first,
\* with SimulationMode off, and Solve is called with the same pods
SolveAgain ==
    /\ pc = "done"
    /\ rerun.run = 1
    /\ rerun' = [run |-> 2, pods |-> rerun.pods, sorts |-> rerun.sorts, outcome |-> Outcome]
    /\ opts' = [SimulationMode |-> FALSE]
    /\ pods' = rerun.pods
    /\ topology' = SnapshotTopology(stateNodes)
    /\ newNodes' = <<>>
    /\ LET s == calculateExistingMachines(Range(machineTemplates), stateNodes, <<>>, LimitsOf(limits))
       IN  /\ existingNodes' = s.existingNodes
           /\ remainingResources' = s.remainingResources
    /\ q' = NewQueue(batch)
    /\ errors' = [p \in {} |-> <<>>]
    /\ pc' = "pop"
    /\ idx' = 1
    /\ cur' = 0
    /\ errs' = <<>>
    /\ node' = NoNode
    /\ lastAdd' = NoAdd
    /\ cancelled' = FALSE
    /\ events' = <<>>
    /\ nominations' = <<>>
    /\ result' = Pending
    /\ UNCHANGED <<machineTemplates, limits, stateNodes, batch, nodeID, typedVars, stateVars, callers, trial>>

PairNext == Next \/ SolveAgain

PairSpec == PairInit /\ [][PairNext]_vars

(***************************************************************************)
(* Properties.                                                             *)
(***************************************************************************)
Done == pc = "done"

AllNodes == Range(newNodes) \cup Range(existingNodes)

\* how many times pod p occurs in the pod lists of the given nodes
RECURSIVE Occurrences(_, _)
Occurrences(p, nodes) ==
    IF nodes = <<>> THEN 0
    ELSE Cardinality({i \in 1..Len(Head(nodes).Pods) : Head(nodes).Pods[i] = p})
         + Occurrences(p, Tail(nodes))

Placements(p) == Occurrences(p, result.newNodes) + Occurrences(p, result.existingNodes)

ReportedFailed(p) == p \in Range(QueueList(q)) /\ ErrorOf(errors, p) # <<>>

\* C1: when Solve returns, every pod of the batch is either in the pod list
\* of exactly one node (existing or prospective) or in the failed-to-schedule
\* list with a non-nil error, and never both or neither.
C1_PlacedOrFailed ==
    Done => \A p \in Range(batch) :
                \/ Placements(p) = 1 /\ p \notin Range(QueueList(q))
                \/ Placements(p) = 0 /\ ReportedFailed(p)

\* the node add constructs for the machine template it stands at, before the pod is offered
ConstructedNode ==
    NewNode(machineTemplates[idx], topology, DaemonOverheadOf[machineTemplates[idx]],
            TemplateInstanceTypes(MachineTemplateCatalog[machineTemplates[idx]].ProvisionerName,
                                  remainingResources),
            AtomicAddInt64(nodeID, 1)).node

\* C2: when Node.Add returns an error the node is unchanged: its pod list,
\* instance-type options, requests, requirements and host-port usage are what
\* they were before the call (for a node of the new-node list and for a node
\* just constructed from a machine template).
C2_FailedAddLeavesNodeUnchanged ==
    [][(lastAdd'.err # NoError) =>
          /\ lastAdd'.kind = "new" => newNodes' = newNodes
          /\ nodeID' # nodeID => node' = ConstructedNode]_vars

C2_Witness ==
    /\ lastAdd.kind = "new"
    /\ lastAdd.err # NoError
    /\ \E n \in Range(newNodes) : n.id = lastAdd.target /\ Len(n.Pods) > 0

InstanceTypeNames(m) == {m.InstanceTypeOptions[i].Name : i \in 1..Len(m.InstanceTypeOptions)}

\* C3: monotone narrowing: across every Add call, successful or failed, the
\* instance-type options of a prospective node after the call are a subset of
\* those before it, and a node holding at least one pod never has an empty
\* option list.
C3_MonotoneNarrowing ==
    /\ [](\A n \in Range(newNodes) : Len(n.Pods) > 0 => Len(n.InstanceTypeOptions) > 0)
    /\ [][/\ \A n \in Range(newNodes) : \A n2 \in Range(newNodes') :
                n.id = n2.id => InstanceTypeNames(n2) \subseteq InstanceTypeNames(n)
          /\ nodeID' # nodeID => InstanceTypeNames(node') \subseteq InstanceTypeNames(ConstructedNode)]_vars

C3_Witness ==
    \E n \in Range(newNodes) :
        /\ Len(n.Pods) > 1
        /\ Len(n.InstanceTypeOptions) < Len(InstanceTypesOf[n.ProvisionerName])

\* the requests of the pods of a node, summed on one resource
PodRequests(m, r) == SumSeq([i \in 1..Len(m.Pods) |-> Quantity(pods[m.Pods[i]].Requests, r)])

\* C4: when Solve has completed, for every prospective node holding a pod and
\* every instance type left in its options, the daemon overhead plus the
\* requests of the node's pods plus the instance type's overhead fit within
\* the instance type's capacity on every resource.
C4_RequestsFitEveryOption ==
    Done => \A m \in Range(result.newNodes) :
                Len(m.Pods) > 0 =>
                    \A i \in 1..Len(m.InstanceTypeOptions) : \A r \in Resources :
                        Quantity(DaemonOverheadOf[m.ProvisionerName], r) + PodRequests(m, r)
                            + Quantity(m.InstanceTypeOptions[i].Overhead, r)
                        <= Quantity(m.InstanceTypeOptions[i].Capacity, r)

C4_Witness ==
    /\ Done
    /\ \E m \in Range(result.newNodes) :
          /\ Len(m.Pods) > 1
          /\ \E i \in 1..Len(m.InstanceTypeOptions) :
                Quantity(DaemonOverheadOf[m.ProvisionerName], "cpu") + PodRequests(m, "cpu")
                    + Quantity(m.InstanceTypeOptions[i].Overhead, "cpu")
                = Quantity(m.InstanceTypeOptions[i].Capacity, "cpu")

\* the remaining resources Solve starts with
StartingRemaining ==
    calculateExistingMachines(Range(machineTemplates), stateNodes, <<>>, LimitsOf(limits)).remainingResources

MaxCapacity(m) == MaxResources({m.InstanceTypeOptions[i].Capacity : i \in 1..Len(m.InstanceTypeOptions)})

\* the pessimistic capacity of the new nodes of a provisioner, on one resource
Committed(name, r) ==
    SumSeq([i \in 1..Len(newNodes) |->
               IF newNodes[i].ProvisionerName = name THEN Quantity(MaxCapacity(newNodes[i]), r) ELSE 0])

\* C5: for every provisioner with declared limits whose remaining budget is
\* non-negative when Solve starts, the sum over its new nodes of the
\* elementwise-maximum capacity of each node's instance-type options never
\* exceeds that starting budget on a limited resource, and the remaining
\* budget never becomes negative.
C5_LimitNeverOvercommitted ==
    \A name \in DOMAIN limits :
        (\A r \in DOMAIN StartingRemaining[name] : StartingRemaining[name][r] >= 0) =>
            \A r \in DOMAIN limits[name] :
                /\ Committed(name, r) <= StartingRemaining[name][r]
                /\ remainingResources[name][r] >= 0

C5_Witness ==
    \E name \in DOMAIN limits :
        /\ \A r \in DOMAIN StartingRemaining[name] : StartingRemaining[name][r] >= 0
        /\ Cardinality({i \in 1..Len(newNodes) : newNodes[i].ProvisionerName = name}) >= 2
        /\ Committed(name, "cpu") = StartingRemaining[name]["cpu"]
        /\ \E p \in DOMAIN errors : \E i \in 1..Len(errors[p]) :
              errors[p][i] = "all available instance types exceed provisioner limits"

\* C6: after any sequence of Add calls, no two pods in the pod list of a node
\* share a host-port tuple (IP, port, protocol).
C6_NoSharedHostPort ==
    \A m \in AllNodes : \A i, j \in 1..Len(m.Pods) :
        i # j => pods[m.Pods[i]].HostPorts \cap pods[m.Pods[j]].HostPorts = {}

C6_Witness ==
    /\ lastAdd.kind = "new"
    /\ lastAdd.err = "host port conflict"
    /\ \E m \in Range(newNodes) : \E i \in 1..Len(m.Pods) : pods[m.Pods[i]].HostPorts # {}

Finalized(m) == ~Has(m.Requirements, LabelHostname)

\* C7: every prospective node Solve returns has been finalized (none carries
\* the synthetic hostname requirement), and no pod is attempted against a
\* node once a node has been finalized: Solve is then past its scheduling loop.
C7_ReturnedNodesFinalized ==
    /\ Done => \A m \in Range(result.newNodes) : Finalized(m)
    /\ (\E m \in Range(newNodes) : Finalized(m)) => pc \in {"finalize", "done"}

C7_Witness ==
    /\ Done
    /\ Len(result.newNodes) >= 2
    /\ \A m \in Range(result.newNodes) : Len(m.Pods) > 0

\* the state nodes whose provisioner label names a known machine template
RecognizedStateNodes ==
    SelectSeq(stateNodes,
              LAMBDA n : /\ ProvisionerNameLabelKey \in DOMAIN StateNodeCatalog[n].Labels
                         /\ StateNodeCatalog[n].Labels[ProvisionerNameLabelKey] \in Range(machineTemplates))

\* C8, as stated: Solve on an empty batch returns an empty set of new nodes,
\* an empty set of existing nodes and a nil error.
C8_EmptyBatchReturnsNothing ==
    (Done /\ batch = <<>>) =>
        /\ result.newNodes = <<>>
        /\ result.existingNodes = <<>>
        /\ result.err = NoError

\* C8, amended: Solve on an empty batch returns no new node and a nil error,
\* and returns as existing nodes the scheduler's whole existing-node list (the
\* state nodes of known provisioners, in input order), each without a pod.
C8_EmptyBatchReturnsExistingNodes ==
    (Done /\ batch = <<>>) =>
        /\ result.newNodes = <<>>
        /\ result.err = NoError
        /\ [i \in 1..Len(result.existingNodes) |-> result.existingNodes[i].Name]
             = [i \in 1..Len(RecognizedStateNodes) |-> StateNodeCatalog[RecognizedStateNodes[i]].Name]
        /\ \A n \in Range(result.existingNodes) : n.Pods = <<>>

C8_Witness ==
    /\ Done
    /\ batch = <<>>
    /\ Len(result.existingNodes) > 0

\* the events recordSchedulingResults publishes: one per failed pod, one per nominated pod
ExpectedEventCount ==
    Len(QueueList(q)) + SumSeq([i \in 1..Len(existingNodes) |-> Len(existingNodes[i].Pods)])

C10_SimulationEmitsNothing ==
    opts.SimulationMode => events = <<>> /\ nominations = <<>>

C10_Witness ==
    /\ Done
    /\ opts.SimulationMode
    /\ QueueList(q) # <<>>
    /\ \E n \in Range(existingNodes) : Len(n.Pods) > 0

FailureEvents(p) == {i \in 1..Len(events) : events[i].type = "PodFailedToSchedule" /\ events[i].pod = p}

NominationEvents(p) == {i \in 1..Len(events) : events[i].type = "NominatePod" /\ events[i].pod = p}

\* C11: outside simulation mode a completed Solve has published exactly one
\* PodFailedToSchedule event for every pod left unscheduled, carrying the
\* error of the pod's last attempt, exactly one NominatePod event for every
\* pod placed on an existing node, and no failure event for a placed pod.
C11_EventsMatchOutcome ==
    (Done /\ ~opts.SimulationMode) =>
        \A p \in Range(batch) :
            /\ Placements(p) = 0 =>
                  /\ Cardinality(FailureEvents(p)) = 1
                  /\ \A i \in FailureEvents(p) : events[i].err = ErrorOf(errors, p)
            /\ Occurrences(p, result.existingNodes) > 0 => Cardinality(NominationEvents(p)) = 1
            /\ Placements(p) > 0 => FailureEvents(p) = {}

\* whether a (the earlier components weighing more) is below b
RECURSIVE LexLess(_, _)
LexLess(a, b) ==
    /\ a # <<>>
    /\ \/ Head(a) < Head(b)
       \/ Head(a) = Head(b) /\ LexLess(Tail(a), Tail(b))

InFlight == pc \in {"existing", "sort", "new", "template"}

\* the relaxations pod p has left
RelaxLeft(p) ==
    Len(pods[p].PreferredNodeAffinity)
    + (IF ToleratePreferNoSchedule(machineTemplates) /\ PreferNoScheduleToleration \notin pods[p].Tolerations
       THEN 1 ELSE 0)

\* the pods that can still be popped before the queue has been cycled through
\* without progress, counting the pod in flight
Unmarked ==
    LET length == Len(q.pods) + (IF InFlight THEN 1 ELSE 0)
    IN  Cardinality({i \in 1..Len(q.pods) : LastLen(q, q.pods[i]) # length}) + (IF InFlight THEN 1 ELSE 0)

\* the steps left in the attempt under way, or to the return of Solve
StepsLeft ==
    LET E == Len(existingNodes)
        N == Len(newNodes)
        T == Len(machineTemplates)
    IN  CASE pc = "pop" -> E + N + T + 5
          [] pc = "existing" -> (E - idx) + N + T + 4
          [] pc = "sort" -> N + T + 3
          [] pc = "new" -> (N - idx) + T + 3
          [] pc = "template" -> (T - idx) + 2
          [] pc = "finalize" -> (N - idx) + 2
          [] pc = "done" -> 0

\* the variant of Solve: relaxations left, pods not yet placed, pods still to
\* be popped in this cycle, steps left in the attempt, the cancellation to come
SolveMeasure ==
    <<SumSeq([i \in 1..Len(batch) |-> RelaxLeft(batch[i])]),
      Len(q.pods) + (IF InFlight THEN 1 ELSE 0),
      Unmarked,
      StepsLeft,
      IF cancelled THEN 0 ELSE 1>>

\* the guards of the steps of Solve: a step can be taken
SolveCanStep ==
    \/ pc \in {"pop", "sort", "template", "finalize"}
    \/ pc = "existing" /\ idx \in 1..Len(existingNodes)
    \/ pc = "new" /\ idx \in 1..Len(newNodes)

\* C12: Solve terminates for every finite pod batch: every step of Solve
\* lowers a measure over the naturals (the relaxations the pods have left,
\* then the pods not yet placed, then the pods still to be popped before the
\* queue has been cycled through without progress, then the steps left in the
\* attempt under way), so the loop cannot run forever, and Solve can always
\* take a step until it has returned.
C12_SolveTerminates ==
    /\ [](Done \/ SolveCanStep)
    /\ [][LexLess(SolveMeasure', SolveMeasure)]_vars

C12_Witness ==
    /\ Done
    /\ Len(QueueList(q)) >= 2
    /\ \E p \in Range(QueueList(q)) : PreferNoScheduleToleration \in pods[p].Tolerations
    /\ \E n \in Range(result.newNodes) : Len(n.Pods) > 0

\* the step in which add returns an error for the pod in flight (Solve, lines 277-283)
AddFails == pc = "template" /\ idx > Len(machineTemplates) /\ errs # <<>> /\ pc' = "pop"

\* the step in which Solve pops a pod to attempt it
Pops == pc = "pop" /\ pc' \in {"existing", "sort"}

\* the relaxer returned false at the last failure of pod p and has returned
\* true for no pod since
FailedUnrelaxed(p) == p \in DOMAIN q.lastLen

\* C13, as stated: a pod that failed to schedule and for which the relaxer
\* returned false is not pushed back for another attempt (a pod is pushed
\* back only when the relaxer returned true), so Solve never pops it again.
C13_UnrelaxedPodNeverRetried ==
    [][/\ (AddFails /\ ~Relax(pods[cur], ToleratePreferNoSchedule(machineTemplates)).relaxed)
             => QueueList(q') = QueueList(q)
       /\ Pops => ~FailedUnrelaxed(cur')]_vars

\* C13, amended: a pod that failed is pushed back whatever the relaxer
\* returned and stays in the error map with the error of this attempt; after
\* the relaxer returned false it is attempted again only when the queue has
\* become shorter since (another pod was placed), or the relaxer has
\* returned true for another pod.
C13_FailedPodPushedBack ==
    [][/\ AddFails => /\ QueueList(q') = Append(QueueList(q), cur)
                      /\ ErrorOf(errors', cur) = errs
       /\ (Pops /\ FailedUnrelaxed(cur')) => Len(QueueList(q)) < q.lastLen[cur']]_vars

C13_Witness ==
    /\ pc \in {"existing", "sort"}
    /\ lastAdd = NoAdd
    /\ FailedUnrelaxed(cur)
    /\ ErrorOf(errors, cur) # <<>>

TypedDone == tpc = "done" /\ ret # NoReturn

PatchesOf(what) == {i \in 1..Len(patches) : patches[i].what = what}

\* C14: for an event whose object is found exactly one of Reconcile and
\* Finalize is invoked, Finalize exactly when the object has a non-zero
\* deletion timestamp and the wrapped reconciler implements finalizing; when
\* the object is not found neither is invoked, nothing is patched and no
\* error is returned.
C14_TypedDispatch ==
    TypedDone =>
        /\ got = NoError =>
              /\ Len(calls) = 1
              /\ calls[1] \in {"Reconcile", "Finalize"}
              /\ calls[1] = "Finalize" <=> (stored.deletionTimestamp # 0 /\ finalizing)
        /\ got = NotFound =>
              /\ calls = <<>>
              /\ patches = <<>>
              /\ ret.err = NoError

C14_Witness ==
    /\ TypedDone
    /\ calls = <<"Reconcile">>
    /\ stored.deletionTimestamp # 0
    /\ patches # <<>>

\* a field of the object other than its status differs from the snapshot
BodyDiffers == \E k \in {"deletionTimestamp", "labels"} : stored[k] # obj[k]

StatusDiffers == stored.status # obj.status

\* C15, as stated: after the reconciler ran the body is patched exactly when
\* the non-status fields differ from the snapshot and the status exactly when
\* the status differs, each whether or not the other patch failed, and a
\* patch error is returned combined with the reconciler's error.
C15_PatchesIndependent ==
    (TypedDone /\ got = NoError) =>
        /\ PatchesOf("body") # {} <=> BodyDiffers
        /\ PatchesOf("status") # {} <=> StatusDiffers
        /\ patchErr # NoError => ret.err = Combine(patchErr, recErr)

BodyPatchFailed == \E i \in PatchesOf("body") : patches[i].err # NoError

\* C15, amended: the body is patched exactly when the non-status fields
\* differ from the snapshot; the status is patched exactly when the status
\* differs and the body patch did not fail (a failed body patch ends the
\* patching); each patch is sent at most once; a patch error is returned
\* combined with the reconciler's error and with an empty result, and
\* without a patch error the reconciler's result and error are returned.
C15_PatchesInOrder ==
    (TypedDone /\ got = NoError) =>
        /\ PatchesOf("body") # {} <=> BodyDiffers
        /\ PatchesOf("status") # {} <=> (StatusDiffers /\ ~BodyPatchFailed)
        /\ Cardinality(PatchesOf("body")) <= 1 /\ Cardinality(PatchesOf("status")) <= 1
        /\ ret = IF \E i \in 1..Len(patches) : patches[i].err # NoError
                 THEN [result |-> EmptyResult, err |-> Combine(patchErr, recErr)]
                 ELSE [result |-> recResult, err |-> recErr]

C15_Witness ==
    /\ TypedDone
    /\ BodyPatchFailed
    /\ StatusDiffers
    /\ recErr # NoError
    /\ ret.err = "patch failed; reconcile failed"

\* what the claim says of a Reconcile that met getErr and updateErr for its
\* key: the tracked objects before and after, and what it returned
ReconciledAsClaimed(before, after, api, r) ==
    /\ r.get = NotFound =>
          /\ after = [k \in DOMAIN before |-> IF k = r.key THEN Absent ELSE before[k]]
          /\ r.ret = [result |-> [Requeue |-> FALSE, RequeueAfter |-> 0], err |-> NoError]
    /\ r.get \notin {NoError, NotFound} =>
          /\ after = before
          /\ r.ret.err = r.get
    /\ (r.get = NoError /\ r.update = NoError) =>
          /\ after = [k \in DOMAIN before |-> IF k = r.key THEN api[k] ELSE before[k]]
          /\ r.ret = [result |-> [Requeue |-> TRUE, RequeueAfter |-> 60], err |-> NoError]
    /\ (r.get = NoError /\ r.update # NoError) =>
          /\ r.ret = [result |-> [Requeue |-> FALSE, RequeueAfter |-> 0], err |-> r.update]

\* C16: a state reconciliation of a node or pod key deletes the key from the
\* cluster state on not-found and returns no error and no requeue; on any
\* other lookup error it leaves the cluster state unchanged and returns the
\* error; on a successful lookup it updates the cluster state with the object
\* and requeues after 60 s, unless the update fails: then the error is
\* returned without requeue.
C16_StateReconcile ==
    [][/\ reconciled'.controller = "node-state" =>
             /\ ReconciledAsClaimed(clusterNodes, clusterNodes', apiNodes, reconciled')
             /\ clusterPods' = clusterPods
       /\ reconciled'.controller = "pod-state" =>
             /\ ReconciledAsClaimed(clusterPods, clusterPods', apiPods, reconciled')
             /\ clusterNodes' = clusterNodes]_vars

C16_Witness ==
    /\ reconciled.controller = "pod-state"
    /\ reconciled.get = NotFound
    /\ clusterPods["default/p2"] = "v2"
    /\ clusterNodes["n1"] = "v2"
    /\ apiNodes["n1"] = "v1"

\* the NewNode calls that have their hostname: the goroutine and the number of the call
NamedCalls == {c \in Goroutines \X (1..MaxCalls) : c[2] <= Len(callers[c[1]].hostnames)}

\* C17: synthetic hostnames never collide: any two NewNode calls, of one
\* goroutine or of goroutines running concurrently, obtain distinct
\* hostname-placeholder values.
C17_HostnamesDistinct ==
    \A c, d \in NamedCalls :
        c # d => callers[c[1]].hostnames[c[2]] # callers[d[1]].hostnames[d[2]]

C17_Witness ==
    /\ \A g \in Goroutines : Len(callers[g].hostnames) = MaxCalls
    /\ callers[1].hostnames[1].digits = <<1, 0, 0, 0, 0>>
    /\ callers[2].hostnames[1].digits = <<9, 9, 9, 9>>
    /\ callers[2].hostnames[2].digits = <<1, 0, 0, 0, 3>>

\* whether the existing node at index i rejects the pod in flight
ExistingRejects(i) == ExistingNodeAdd(existingNodes[i], cur, pods[cur], topology).err # NoError

\* whether the prospective node at index j rejects the pod in flight
NewRejects(j) == NodeAdd(newNodes[j], cur, pods[cur], topology).err # NoError

EveryNodeRejects ==
    /\ \A i \in 1..Len(existingNodes) : ExistingRejects(i)
    /\ \A j \in 1..Len(newNodes) : NewRejects(j)

\* the nodes that hold pod p
Holders(p) ==
    {<<"existing", i>> : i \in {i \in 1..Len(existingNodes) : p \in Range(existingNodes[i].Pods)}}
    \cup {<<"new", newNodes[j].id>> : j \in {j \in 1..Len(newNodes) : p \in Range(newNodes[j].Pods)}}

\* the step offers the pod in flight to a candidate of this kind
Offers(kind) == cancelled' = cancelled /\ lastAdd'.kind = kind

FailingChecks(m, pod, topo) ==
    LET podRequirements == NewPodRequirements(pod)
        nodeRequirements == ReqAdd(m.Requirements, podRequirements)
        fromTopology == TopologyAddRequirements(topo, podRequirements, nodeRequirements, pod)
        finalRequirements == ReqAdd(nodeRequirements, fromTopology.reqs)
        requests == Merge(m.Requests, RequestsForPods(pod))
    IN  {c \in 1..5 :
            \/ c = 1 /\ \E t \in m.Taints : \A tol \in pod.Tolerations : ~ToleratesTaint(tol, t)
            \/ c = 2 /\ \E e \in pod.HostPorts : \E r \in m.hostPortUsage : HostPortMatches(e, r)
            \/ c = 3 /\ ~Compatible(m.Requirements, podRequirements)
            \/ c = 4 /\ (fromTopology.err # NoError \/ ~Compatible(nodeRequirements, fromTopology.reqs))
            \/ c = 5 /\ \A i \in 1..Len(m.InstanceTypeOptions) :
                            ~(/\ compatible(m.InstanceTypeOptions[i], finalRequirements)
                              /\ fits(m.InstanceTypeOptions[i], requests)
                              /\ hasOffering(m.InstanceTypeOptions[i], finalRequirements))}

\* the check an error of Node.Add comes from
CheckOf(err) ==
    CASE err = "did not tolerate taint" -> 1
      [] err = "host port conflict" -> 2
      [] err = "incompatible requirements" -> 3
      [] err \in {"unsatisfiable topology constraint for pod anti-affinity",
                  "incompatible topology requirements"} -> 4
      [] err = "no instance type satisfied resources and requirements" -> 5
      [] OTHER -> 0

\* the error is that of the earliest check that fails, nil when none does
EarliestFailure(err, failing) ==
    IF failing = {} THEN err = NoError
    ELSE CheckOf(err) \in failing /\ \A c \in failing : CheckOf(err) <= c

\* C19: Node.Add runs its checks in the order taint tolerance, host-port
\* validation, requirement intersection, topology requirements,
\* instance-type survival and stops at the first that fails: the error it
\* returns is that of the earliest failing check, whatever later checks
\* would fail too.
C19_EarliestCheckFails ==
    [][trial'.offered > trial.offered =>
          EarliestFailure(trial'.err, FailingChecks(trial.node, trial'.pod, trial.topology))]_vars

\* the node refused a pod for its taint although its host port, its zone and
\* its anti-affinity stood against it too
C19_Witness ==
    /\ trial.offered = MaxOffers
    /\ trial.err = "did not tolerate taint"
    /\ {1, 2, 3, 4} \subseteq FailingChecks(trial.node, trial.pod, trial.topology)

\* the largest capacity of resource k among the instance types of node m
LargestCapacity(m, k) ==
    LET quantities == {Quantity(m.InstanceTypeOptions[i].Capacity, k) : i \in 1..Len(m.InstanceTypeOptions)}
    IN  CHOOSE x \in quantities : \A y \in quantities : y <= x

\* this step appends a prospective node of provisioner name to newNodes
Creates(name) ==
    /\ Len(newNodes') = Len(newNodes) + 1
    /\ newNodes'[Len(newNodes')].ProvisionerName = name

\* C20: during Solve the remaining budget of a provisioner changes only on
\* the step that creates a prospective node for it, and then every resource
\* key of the budget drops by exactly the largest capacity of that resource
\* among the instance types the node keeps after its first pod's Add; every
\* other step (a pod placed on an existing or a prospective node, a failed
\* attempt, a later narrowing of a node's instance types) leaves it as it
\* was, and the budget never gains a resource key.
C20_BudgetChangesOnlyOnCreation ==
    [][\A name \in {MachineTemplateCatalog[t].ProvisionerName : t \in DOMAIN MachineTemplateCatalog} :
          LET before == Remaining(remainingResources, name)
              after == Remaining(remainingResources', name)
          IN  /\ DOMAIN after = DOMAIN before
              /\ IF Creates(name)
                 THEN \A k \in DOMAIN before :
                         after[k] = before[k] - LargestCapacity(newNodes'[Len(newNodes')], k)
                 ELSE after = before]_vars

\* a limited provisioner has paid for a prospective node that has since taken
\* a second pod and lost an instance type, while some pod's attempt failed
C20_Witness ==
    /\ lastAdd.kind = "new"
    /\ lastAdd.err = NoError
    /\ \E p \in DOMAIN errors : errors[p] # <<>>
    /\ \E name \in DOMAIN limits : \E i \in 1..Len(newNodes) :
          /\ newNodes[i].ProvisionerName = name
          /\ newNodes[i].id = lastAdd.target
          /\ Len(newNodes[i].Pods) >= 2
          /\ Len(newNodes[i].InstanceTypeOptions) < Len(InstanceTypesOf[name])
          /\ remainingResources[name] # StartingRemaining[name]
          /\ \A k \in DOMAIN limits[name] : remainingResources[name][k] >= 0

\* the declared limits of a provisioner, none when it declares none
DeclaredLimits(name) == IF name \in DOMAIN limits THEN limits[name] ELSE EmptyResourceList

\* the capacity, on resource k, of the recognised state nodes of a provisioner
RecognizedCapacity(name, k) ==
    SumSeq([i \in 1..Len(RecognizedStateNodes) |->
               LET stateNode == StateNodeCatalog[RecognizedStateNodes[i]]
               IN  IF stateNode.Labels[ProvisionerNameLabelKey] = name
                   THEN Quantity(stateNode.Capacity, k) ELSE 0])

\* the provisioner names a state node's label may carry
LabelledProvisioners ==
    {StateNodeCatalog[n].Labels[ProvisionerNameLabelKey] :
        n \in {x \in DOMAIN StateNodeCatalog : ProvisionerNameLabelKey \in DOMAIN StateNodeCatalog[x].Labels}}

\* C21: when NewScheduler returns, the existing nodes are exactly the state
\* nodes whose provisioner label names a known machine template, in input
\* order, and the remaining budget of every provisioner is its declared
\* limits minus the summed capacity of exactly those of its nodes; a state
\* node without the label or of an unrecognised provisioner is no existing
\* node and reduces no budget.
C21_InitialState ==
    pc = "constructed" =>
        /\ [i \in 1..Len(existingNodes) |-> existingNodes[i].Name]
             = [i \in 1..Len(RecognizedStateNodes) |-> StateNodeCatalog[RecognizedStateNodes[i]].Name]
        /\ \A name \in LabelledProvisioners \cup DOMAIN limits \cup Range(machineTemplates) :
              Remaining(remainingResources, name)
                = [k \in DOMAIN DeclaredLimits(name) |-> DeclaredLimits(name)[k] - RecognizedCapacity(name, k)]

\* two nodes of a limited provisioner were charged to its budget, while the
\* node of a limited provisioner without a machine template was passed over
C21_Witness ==
    /\ pc = "constructed"
    /\ Len(stateNodes) = MaxStateNodes
    /\ Len(existingNodes) = 2
    /\ DOMAIN limits = {"a", "b"}
    /\ machineTemplates = <<"a">>
    /\ RecognizedCapacity("a", "cpu") = 8
    /\ remainingResources["a"]["cpu"] < limits["a"]["cpu"]
    /\ remainingResources["b"] = limits["b"]
    /\ "n5" \in Range(stateNodes)

\* the machine templates of the provisioners that declare no limits
UnlimitedTemplates == {t \in Range(machineTemplates) : MachineTemplateCatalog[t].ProvisionerName \notin DOMAIN limits}

\* C22: for a provisioner that declares no limits the limit filter excludes
\* no instance type: at every point of a Solve, also once a node creation or
\* an in-flight node has stored a budget entry for the provisioner, a new
\* prospective node for it is constructed with the provisioner's full
\* instance-type list.
C22_UnlimitedNeverFiltered ==
    /\ \A t \in UnlimitedTemplates :
          LET name == MachineTemplateCatalog[t].ProvisionerName
          IN  TemplateInstanceTypes(name, remainingResources) = InstanceTypesOf[name]
    /\ (pc = "template" /\ idx <= Len(machineTemplates) /\ machineTemplates[idx] \in UnlimitedTemplates) =>
          ConstructedNode.InstanceTypeOptions
            = InstanceTypesOf[MachineTemplateCatalog[machineTemplates[idx]].ProvisionerName]

\* a node is about to be constructed for a provisioner without limits that
\* has a budget entry, an in-flight node and a prospective node already
C22_Witness ==
    /\ pc = "template"
    /\ idx <= Len(machineTemplates)
    /\ machineTemplates[idx] \in UnlimitedTemplates
    /\ LET name == MachineTemplateCatalog[machineTemplates[idx]].ProvisionerName
       IN  /\ name \in DOMAIN remainingResources
           /\ \E m \in Range(newNodes) : m.ProvisionerName = name
           /\ \E n \in Range(existingNodes) : n.Requirements[ProvisionerNameLabelKey] = {name}

\* the hostname domains NewNode registered during this Solve
SyntheticDomains == topology.domains \ SnapshotTopology(stateNodes).domains

\* C23: a scheduling attempt in which a machine template rejects the pod
\* leaves no trace in the topology: at every point of a Solve every synthetic
\* hostname domain registered in the topology belongs to a prospective node
\* of the new-node list, so no discarded node remains as an empty domain.
C23_NoOrphanHostnameDomain ==
    \A d \in SyntheticDomains : \E m \in Range(newNodes) : d = PlaceholderHostname(m.id)

\* C24: SimulationMode does not influence scheduling decisions: a Solve with
\* SimulationMode off, run from the inputs and the scheduler state of a Solve
\* with SimulationMode on, produces the same prospective nodes with the same
\* pods and instance-type options, the same pods on the existing nodes, the
\* same failed pods with the same errors, and the same remaining budgets.
C24_SimulationModeDecidesNothing ==
    (pc = "done" /\ rerun.run = 2) => Outcome = rerun.outcome

\* both Solves are over, and they created a node for a limited provisioner,
\* put a pod on an existing node and left a pod unscheduled
C24_Witness ==
    /\ pc = "done"
    /\ rerun.run = 2
    /\ ~opts.SimulationMode
    /\ DOMAIN limits # {}
    /\ \E i \in 1..Len(rerun.outcome.newNodes) :
          rerun.outcome.newNodes[i].ProvisionerName \in DOMAIN limits
    /\ \E i \in 1..Len(rerun.outcome.existingNodes) : rerun.outcome.existingNodes[i].Pods # <<>>
    /\ rerun.outcome.failed # <<>>
    /\ events # <<>>
    /\ \E name \in DOMAIN limits :
          Len(TemplateInstanceTypes(name, remainingResources)) < Len(InstanceTypesOf[name])

====
